---- MODULE Spec2Model ----
(***************************************************************************)
(* Model of the result-ingestion workflow of the swim-team results API:    *)
(* POST /resultados (create_resultado) with its validation pipeline,       *)
(* derived metrics and transactional persistence, and                      *)
(* PATCH /resultados/{id}/revisar (toggle_estado_revision), together with  *)
(* the handlers that write the nadador and competencia tables.             *)
(*                                                                         *)
(* Conventions.  An Optional value is a sequence: <<>> is None and <<v>>   *)
(* is the value v.  A date is a triple <<year, month, day>>.  flecha_m is  *)
(* a Decimal with one decimal place; it is held in tenths of a metre, and  *)
(* every comparison with a distance in metres scales the distance by 10.   *)
(***************************************************************************)
EXTENDS Integers, Sequences, FiniteSets, TLC

VARIABLES
    modo,           \* which request universe the run draws from
    nadador,        \* table nadador: id -> row
    competencia,    \* table competencia: id -> row
    resultado,      \* table resultado, committed rows
    segmento,       \* table segmento, committed rows
    seq_resultado,  \* serial sequence of resultado.id (next value)
    seq_nadador,    \* serial sequence of nadador.id (next value)
    seq_competencia,\* serial sequence of competencia.id (next value)
    pc,             \* per request slot: position inside the handler
    req,            \* per request slot: the call being served (or the last one served)
    tx,             \* per request slot: rows flushed in the open transaction
    loc,            \* per request slot: local variables of the handler
    resp            \* per request slot: the last response sent

vars == <<modo, nadador, competencia, resultado, segmento, seq_resultado, seq_nadador,
          seq_competencia, pc, req, tx, loc, resp>>

----------------------------------------------------------------------------
(* Bounds *)

\* cap on resultado ids handed out in the sequential universe
MaxResultadosSec == 1
\* cap on resultado ids handed out in the concurrent universe
MaxResultadosConc == 2
\* largest nadador id and largest competencia id a run hands out
MaxNadadores == 3
MaxCompetencias == 4

----------------------------------------------------------------------------
(* Optional values *)

None == <<>>
Some(v) == <<v>>
IsNone(o) == o = <<>>
Val(o) == o[1]

----------------------------------------------------------------------------
(* Rows that exist before any request: usuarios, nadadores, competencias,   *)
(* and the prueba catalogue.                                                *)

\* usuario.rol is a free text column: user 4 holds a role that is neither
\* "entrenador" nor "atleta"
Usuarios ==
    [ u \in 1..4 |->
        CASE u = 1 -> [id |-> 1, rol |-> "entrenador", equipo_id |-> 1,
                       auth_user_id |-> "sub1", email |-> "u1@club"]
          [] u = 2 -> [id |-> 2, rol |-> "atleta",     equipo_id |-> 1,
                       auth_user_id |-> "sub2", email |-> "u2@club"]
          [] u = 3 -> [id |-> 3, rol |-> "entrenador", equipo_id |-> 2,
                       auth_user_id |-> "sub3", email |-> "u3@club"]
          [] u = 4 -> [id |-> 4, rol |-> "juez",       equipo_id |-> 1,
                       auth_user_id |-> "sub4", email |-> "u4@club"] ]

NadadoresIniciales ==
    [ n \in 1..2 |->
        CASE n = 1 -> [equipo_id |-> 1, fecha_nacimiento |-> <<2010, 6, 15>>, rama |-> "F"]
          [] n = 2 -> [equipo_id |-> 2, fecha_nacimiento |-> <<2008, 1, 20>>, rama |-> "M"] ]

CompetenciasIniciales ==
    [ c \in 1..3 |->
        CASE c = 1 -> [equipo_id |-> 1, curso |-> "SC", nombre |-> <<"C", "o", "p", "a">>,
                       fecha_inicio |-> <<2024, 6, 14>>, fecha_fin |-> <<2024, 6, 16>>]
          [] c = 2 -> [equipo_id |-> 1, curso |-> "LC", nombre |-> <<"O", "p", "e", "n">>,
                       fecha_inicio |-> <<2024, 6, 14>>, fecha_fin |-> <<2024, 6, 15>>]
          [] c = 3 -> [equipo_id |-> 2, curso |-> "SC", nombre |-> <<"C", "o", "p", "a">>,
                       fecha_inicio |-> <<2024, 7, 1>>, fecha_fin |-> <<2024, 7, 2>>] ]

Prueba ==
    [ q \in 1..3 |->
        CASE q = 1 -> [distancia |-> 100, curso |-> "SC", estilo |-> "Combinado"]
          [] q = 2 -> [distancia |-> 50,  curso |-> "SC", estilo |-> "Libre"]
          [] q = 3 -> [distancia |-> 100, curso |-> "LC", estilo |-> "Libre"] ]

----------------------------------------------------------------------------
(* Arithmetic helpers *)

Abs(x) == IF x < 0 THEN -x ELSE x
Max(a, b) == IF a >= b THEN a ELSE b

RECURSIVE SumSeq(_)
SumSeq(s) == IF s = <<>> THEN 0 ELSE Head(s) + SumSeq(Tail(s))

\* lexicographic (month, day) < (month, day), as Python compares tuples
TupleLess(a, b) == a[1] < b[1] \/ (a[1] = b[1] /\ a[2] < b[2])

\* date < date
FechaMenor(a, b) ==
    a[1] < b[1] \/ (a[1] = b[1] /\ TupleLess(<<a[2], a[3]>>, <<b[2], b[3]>>))

\* date.today() during the run
Hoy == <<2024, 6, 20>>

EsBisiesto(y) == (y % 4 = 0 /\ y % 100 # 0) \/ y % 400 = 0

DiasDelMes(y, m) ==
    IF m = 2 THEN (IF EsBisiesto(y) THEN 29 ELSE 28)
    ELSE IF m \in {4, 6, 9, 11} THEN 30 ELSE 31

FechaValida(f) == f[2] \in 1..12 /\ f[3] \in 1..DiasDelMes(f[1], f[2])

\* the calendar day before f
DiaAnterior(f) ==
    IF f[3] > 1 THEN <<f[1], f[2], f[3] - 1>>
    ELSE IF f[2] > 1 THEN <<f[1], f[2] - 1, DiasDelMes(f[1], f[2] - 1)>>
    ELSE <<f[1] - 1, 12, 31>>

RECURSIVE DiasAntesDeAnio(_)
DiasAntesDeAnio(y) ==
    IF y <= 2000 THEN 0
    ELSE DiasAntesDeAnio(y - 1) + (IF EsBisiesto(y - 1) THEN 366 ELSE 365)

RECURSIVE DiasAntesDeMes(_, _)
DiasAntesDeMes(y, m) ==
    IF m = 1 THEN 0 ELSE DiasAntesDeMes(y, m - 1) + DiasDelMes(y, m - 1)

\* the day number of a date, counted from 2000-01-01: (a - b).days is
\* toordinal(a) - toordinal(b)
toordinal(f) == DiasAntesDeAnio(f[1]) + DiasAntesDeMes(f[1], f[2]) + f[3]

----------------------------------------------------------------------------
(* Usuario.permissions and the permission dependency of create_resultado *)

\* the mutant of is_trainer: every role but atleta counts as entrenador
is_trainer_no_atleta(user) == user.rol # "atleta"

is_trainer(user) == user.rol = "entrenador"

PermissionKeys ==
    {"crear_competencias", "editar_competencias", "eliminar_competencias",
     "crear_nadadores", "editar_nadadores", "eliminar_nadadores",
     "registrar_resultados", "editar_resultados", "eliminar_resultados",
     "ver_dashboard", "ver_analitica", "acceso_completo"}

permissions(user) ==
    [ k \in PermissionKeys |->
        IF is_trainer(user) THEN TRUE
        ELSE k \in {"ver_dashboard", "ver_analitica"} ]

\* permissions.get(permission_key, False)
validate_permission(user, permission_key) ==
    IF permission_key \in DOMAIN permissions(user)
    THEN permissions(user)[permission_key]
    ELSE FALSE

----------------------------------------------------------------------------
(* get_current_user: the Authorization header, the token, the usuario row   *)
(* An Authorization header is None or the sequence of its parts around the  *)
(* first space; a token is the record of what jwt.decode finds in it.       *)

\* scheme.lower() for the schemes of the request universe
scheme_lower(scheme) ==
    IF scheme \in {"Bearer", "BEARER", "bearer"} THEN "bearer" ELSE scheme

TokenVacio == [verifica |-> FALSE, payload_completo |-> FALSE, sub |-> "", email |-> "", vacio |-> TRUE]

\* SupabaseJWTValidator.extract_token_from_header: None when the header is
\* missing, has no space or names another scheme
extract_token_from_header(authorization) ==
    IF IsNone(authorization) THEN None
    ELSE IF Len(Val(authorization)) < 2 THEN None
    ELSE IF scheme_lower(Val(authorization)[1]) # "bearer" THEN None
    ELSE Some(Val(authorization)[2])

\* extract_token_from_auth_header: 401 when there is no token or it is empty
extract_token_from_auth_header(authorization) ==
    LET token == extract_token_from_header(authorization)
    IN IF IsNone(token) \/ Val(token).vacio
       THEN [status |-> 401, detail |-> "missing_token"]
       ELSE [status |-> 200, token |-> Val(token)]

\* validate_supabase_token: jwt.decode verifies signature, expiry, audience
\* and issuer, JWTPayload requires sub and email; every failure is a 401
validate_supabase_token(token) ==
    IF token.verifica /\ token.payload_completo
    THEN [status |-> 200, user_id |-> token.sub, email |-> token.email]
    ELSE [status |-> 401, detail |-> "invalid_token"]

\* the mutant of email_coincide: the e-mail of the token is not compared
email_coincide_siempre(user, token_info) == TRUE

\* lines 64-74: user.email != token_info.email is a 401
email_coincide(user, token_info) == user.email = token_info.email

\* get_current_user over the usuario table
get_current_user(tabla_usuario, authorization) ==
    LET extraido == extract_token_from_auth_header(authorization)
        token_info == validate_supabase_token(extraido.token)
        filas == {u \in DOMAIN tabla_usuario :
                     tabla_usuario[u].auth_user_id = token_info.user_id}
        user == CHOOSE u \in filas : TRUE
    IN IF extraido.status # 200 THEN extraido
       ELSE IF token_info.status # 200 THEN token_info
       ELSE IF filas = {} THEN [status |-> 401, detail |-> "user_not_found"]
       ELSE IF ~email_coincide(tabla_usuario[user], token_info)
         THEN [status |-> 401, detail |-> "email_mismatch"]
       ELSE [status |-> 200, usuario |-> user]

\* a request that carries its Authorization header reaches the handler only
\* when the dependency get_current_user returns a user
Autenticada(ll) ==
    "authorization" \in DOMAIN ll => get_current_user(Usuarios, ll.authorization).status = 200

----------------------------------------------------------------------------
(* Request-body validation done by the schemas before the handler runs *)

\* SegmentoBase: indice >= 1, distancia_m in (25, 50), tiempo_cs > 0,
\* brazadas >= 0, flecha_m >= 0 with at most 4 digits (3 integer, 1 decimal)
SegmentoBaseValido(s) ==
    /\ s.indice >= 1
    /\ s.distancia_m \in {25, 50}
    /\ s.tiempo_cs > 0
    /\ s.brazadas >= 0
    /\ s.flecha_m >= 0
    /\ s.flecha_m <= 9999

\* sorted(v, key=lambda s: s.indice) followed by the test indice == i for
\* i = 1..len(v): the sorted indices are 1, 2, ..., len(v), which is to say
\* every i in 1..len(v) is the indice of exactly one element
validate_segmentos(v) ==
    /\ Len(v) >= 1
    /\ \A i \in 1..Len(v) : Cardinality({j \in 1..Len(v) : v[j].indice = i}) = 1

\* ResultadoCreate: tiempo_global_cs > 0, tiempo_15m_cs > 0 when present
ResultadoCreateValido(data) ==
    /\ data.tiempo_global_cs > 0
    /\ (IsNone(data.tiempo_15m_cs) \/ Val(data.tiempo_15m_cs) > 0)
    /\ \A j \in 1..Len(data.segmentos) : SegmentoBaseValido(data.segmentos[j])
    /\ validate_segmentos(data.segmentos)

----------------------------------------------------------------------------
(* calcular_categoria_en_fecha *)

\* the mutant of calcular_categoria_por_edad: every band ends one year early
calcular_categoria_por_edad_un_anio_antes(edad) ==
    IF edad <= 11 THEN "11-12"
    ELSE IF edad <= 13 THEN "13-14"
    ELSE IF edad <= 15 THEN "15-16"
    ELSE "17+"

calcular_categoria_por_edad(edad) ==
    IF edad <= 12 THEN "11-12"
    ELSE IF edad <= 14 THEN "13-14"
    ELSE IF edad <= 16 THEN "15-16"
    ELSE "17+"

\* the mutant of calcular_categoria_en_fecha: the age is the difference of the
\* years, whether or not the birthday has passed
calcular_categoria_en_fecha_sin_ajuste(fecha_nacimiento, fecha_competencia) ==
    calcular_categoria_por_edad(fecha_competencia[1] - fecha_nacimiento[1])

calcular_categoria_en_fecha(fecha_nacimiento, fecha_competencia) ==
    LET antes == TupleLess(<<fecha_competencia[2], fecha_competencia[3]>>,
                           <<fecha_nacimiento[2], fecha_nacimiento[3]>>)
        edad  == fecha_competencia[1] - fecha_nacimiento[1] - (IF antes THEN 1 ELSE 0)
    IN calcular_categoria_por_edad(edad)

\* Nadador.calcular_categoria(fecha_competencia): the same age, its own bands
Nadador_calcular_categoria(self, fecha_competencia) ==
    LET antes == TupleLess(<<fecha_competencia[2], fecha_competencia[3]>>,
                           <<self.fecha_nacimiento[2], self.fecha_nacimiento[3]>>)
        edad_en_competencia ==
            fecha_competencia[1] - self.fecha_nacimiento[1] - (IF antes THEN 1 ELSE 0)
    IN IF edad_en_competencia <= 12 THEN "11-12"
       ELSE IF edad_en_competencia <= 14 THEN "13-14"
       ELSE IF edad_en_competencia <= 16 THEN "15-16"
       ELSE "17+"

----------------------------------------------------------------------------
(* _validar_datos_resultado: the checks in the order of the code.  The      *)
(* result is [status |-> 200, ...] when every check passes and otherwise    *)
(* the HTTPException raised by the first check that fails.                  *)

Error(status, detail) == [status |-> status, detail |-> detail]

longitud_segmento(curso_prueba) == IF curso_prueba = "SC" THEN 25 ELSE 50

\* the mutant of num_segmentos_esperados: one segment too many
num_segmentos_esperados_mas_uno(distancia_prueba, curso_prueba) ==
    distancia_prueba \div longitud_segmento(curso_prueba) + 1

\* distancia_prueba // longitud_segmento
num_segmentos_esperados(distancia_prueba, curso_prueba) ==
    distancia_prueba \div longitud_segmento(curso_prueba)

estilos_im == <<"Mariposa", "Dorso", "Pecho", "Libre">>

\* estilos_im[(i - 1) % 4] with Python's 0-based list
estilo_esperado(i) == estilos_im[((i - 1) % 4) + 1]

\* the mutant of ValidarSegmento: the segment-length check is missing
ValidarSegmento_sin_distancia(i, seg, longitud, estilo_prueba) ==
    IF seg.flecha_m > seg.distancia_m * 10
        THEN Error(400, "segmento_flecha")
    ELSE IF estilo_prueba = "Combinado" /\ seg.estilo_segmento # estilo_esperado(i)
        THEN Error(400, "segmento_estilo_im")
    ELSE Error(200, "ok")

\* the mutant of ValidarSegmento: the streamline check is missing
ValidarSegmento_sin_flecha(i, seg, longitud, estilo_prueba) ==
    IF seg.distancia_m # longitud
        THEN Error(400, "segmento_distancia")
    ELSE IF estilo_prueba = "Combinado" /\ seg.estilo_segmento # estilo_esperado(i)
        THEN Error(400, "segmento_estilo_im")
    ELSE Error(200, "ok")

\* one iteration of "for i, segmento in enumerate(data.segmentos, 1)":
\* i is the position in the submitted list
ValidarSegmento(i, seg, longitud, estilo_prueba) ==
    IF seg.distancia_m # longitud
        THEN Error(400, "segmento_distancia")
    ELSE IF seg.flecha_m > seg.distancia_m * 10
        THEN Error(400, "segmento_flecha")
    ELSE IF estilo_prueba = "Combinado" /\ seg.estilo_segmento # estilo_esperado(i)
        THEN Error(400, "segmento_estilo_im")
    ELSE Error(200, "ok")

RECURSIVE ValidarSegmentos(_, _, _, _)
ValidarSegmentos(segs, i, longitud, estilo_prueba) ==
    IF i > Len(segs) THEN Error(200, "ok")
    ELSE LET r == ValidarSegmento(i, segs[i], longitud, estilo_prueba)
         IN IF r.status # 200 THEN r
            ELSE ValidarSegmentos(segs, i + 1, longitud, estilo_prueba)

\* the mutant of tiempo_15m_rechazado: the distance test is "< 50"
tiempo_15m_rechazado_menor(tiempo_15m_cs, distancia_prueba) ==
    ~IsNone(tiempo_15m_cs) /\ distancia_prueba < 50

\* step 6: data.tiempo_15m_cs is not None and distancia_prueba != 50
tiempo_15m_rechazado(tiempo_15m_cs, distancia_prueba) ==
    ~IsNone(tiempo_15m_cs) /\ distancia_prueba # 50

\* the five columns of the uniqueness query
Clave(r) == <<r.nadador_id, r.competencia_id, r.prueba_id, r.fase, r.fecha_registro>>

\* the mutant of ExisteResultado: a query whose WHERE clause never matches
ExisteResultado_nunca(data, tabla_resultado) ==
    \E r \in tabla_resultado : Clave(r) = Clave(data) /\ FALSE

\* step 7: SELECT id FROM resultado WHERE the five columns match
ExisteResultado(data, tabla_resultado) ==
    \E r \in tabla_resultado : Clave(r) = Clave(data)

_validar_datos_resultado(tabla_nadador, tabla_competencia, tabla_resultado, data, equipo_id) ==
    IF data.nadador_id \notin DOMAIN tabla_nadador
        THEN Error(404, "nadador_no_encontrado")
    ELSE IF tabla_nadador[data.nadador_id].equipo_id # equipo_id
        THEN Error(403, "nadador_otro_equipo")
    ELSE IF data.competencia_id \notin DOMAIN tabla_competencia
        THEN Error(404, "competencia_no_encontrada")
    ELSE IF tabla_competencia[data.competencia_id].equipo_id # equipo_id
        THEN Error(403, "competencia_otro_equipo")
    ELSE IF data.prueba_id \notin DOMAIN Prueba
        THEN Error(404, "prueba_no_encontrada")
    ELSE
      LET distancia_prueba == Prueba[data.prueba_id].distancia
          curso_prueba     == Prueba[data.prueba_id].curso
          estilo_prueba    == Prueba[data.prueba_id].estilo
          curso_competencia == tabla_competencia[data.competencia_id].curso
          segs == ValidarSegmentos(data.segmentos, 1,
                                   longitud_segmento(curso_prueba), estilo_prueba)
      IN
        IF curso_prueba # curso_competencia
            THEN Error(400, "curso_no_coincide")
        ELSE IF Len(data.segmentos) # num_segmentos_esperados(distancia_prueba, curso_prueba)
            THEN Error(400, "numero_segmentos")
        ELSE IF segs.status # 200
            THEN segs
        ELSE IF tiempo_15m_rechazado(data.tiempo_15m_cs, distancia_prueba)
            THEN Error(400, "tiempo_15m")
        ELSE IF ExisteResultado(data, tabla_resultado)
            THEN Error(409, "duplicado")
        ELSE [status |-> 200, detail |-> "ok",
              distancia_prueba |-> distancia_prueba,
              fecha_competencia |-> data.fecha_registro]

----------------------------------------------------------------------------
(* _calcular_resumen_global *)

\* the mutant of requiere_revision: the comparison includes the tolerance
requiere_revision_inclusivo(desviacion_absoluta_cs) == desviacion_absoluta_cs >= 40

\* the tolerance of 40 cs in "desviacion_absoluta_cs > 40"
requiere_revision(desviacion_absoluta_cs) == desviacion_absoluta_cs > 40

\* the mutant of suma_parciales: the first segment is left out of the sum
suma_parciales_sin_primero(segmentos) ==
    SumSeq([j \in 1..(Len(segmentos) - 1) |-> segmentos[j + 1].tiempo_cs])

\* sum(seg.tiempo_cs for seg in segmentos)
suma_parciales(segmentos) ==
    SumSeq([j \in 1..Len(segmentos) |-> segmentos[j].tiempo_cs])

\* the mutant of dist_sin_flecha: the streamline is not subtracted
dist_sin_flecha_sin_restar(seg) == Max(seg.distancia_m * 10, 0)

\* max(Decimal(distancia_m) - flecha_m, Decimal('0')), in tenths of a metre
dist_sin_flecha(seg) == Max(seg.distancia_m * 10 - seg.flecha_m, 0)

_calcular_resumen_global(segmentos, tiempo_global_cs, distancia_prueba) ==
    LET suma_parciales_cs == suma_parciales(segmentos)
        brazadas_totales  == SumSeq([j \in 1..Len(segmentos) |-> segmentos[j].brazadas])
        flecha_total_m    == SumSeq([j \in 1..Len(segmentos) |-> segmentos[j].flecha_m])
        distancia_sin_flecha_total_m ==
            SumSeq([j \in 1..Len(segmentos) |-> dist_sin_flecha(segmentos[j])])
        desviacion_cs     == suma_parciales_cs - tiempo_global_cs
        desviacion_absoluta_cs == Abs(desviacion_cs)
    IN [ suma_parciales_cs |-> suma_parciales_cs,
         desviacion_cs |-> desviacion_cs,
         desviacion_absoluta_cs |-> desviacion_absoluta_cs,
         requiere_revision |-> requiere_revision(desviacion_absoluta_cs),
         brazadas_totales |-> brazadas_totales,
         flecha_total_m |-> flecha_total_m,
         distancia_sin_flecha_total_m |-> distancia_sin_flecha_total_m,
         distancia_total_m |-> distancia_prueba,
         \* distancia_prueba / (tiempo_global_cs / 100), kept as the pair
         \* <<numerator, denominator>>
         velocidad_promedio_mps |-> <<distancia_prueba * 100, tiempo_global_cs>>,
         \* the quotient distancia_sin_flecha_total_m / brazadas_totales is kept
         \* as the pair <<numerator, denominator>>
         distancia_por_brazada_global_m |->
             IF brazadas_totales > 0
             THEN Some(<<distancia_sin_flecha_total_m, brazadas_totales>>)
             ELSE None ]

\* EstadoValidacionEnum.REVISAR if resumen.requiere_revision else VALIDO
estado_validacion_inicial(resumen) ==
    IF resumen.requiere_revision THEN "revisar" ELSE "valido"
----------------------------------------------------------------------------
(* The requests the model submits.  A request is built from the valid      *)
(* submission of a prueba (Base) by changing one aspect of it: the header,  *)
(* the timing, the number of segments, the order in which the segments are  *)
(* listed, or one field of one segment.                                     *)

Fecha1 == <<2024, 6, 14>>
Fecha2 == <<2024, 6, 15>>

\* the medley rotation, written out for the inputs
CicloIM == <<"Mariposa", "Dorso", "Pecho", "Libre">>

\* segments of each prueba of the catalogue: 100 SC, 50 SC, 100 LC
NSeg == <<4, 2, 2>>
LSeg == <<25, 25, 50>>

SegBase(q, k) ==
    [ indice |-> k,
      estilo_segmento |-> IF q = 1 THEN CicloIM[((k - 1) % 4) + 1] ELSE "Libre",
      distancia_m |-> LSeg[q],
      tiempo_cs |-> 1500 + 100 * k,
      brazadas |-> 10 + k,
      flecha_m |-> 50 ]

SegLista(q, n) == [k \in 1..n |-> SegBase(q, k)]

Base(q) ==
    [ nadador_id |-> 1,
      competencia_id |-> IF q = 3 THEN 2 ELSE 1,
      prueba_id |-> q,
      fase |-> "Final",
      fecha_registro |-> Fecha1,
      tiempo_global_cs |-> SumSeq([k \in 1..NSeg[q] |-> 1500 + 100 * k]),
      tiempo_15m_cs |-> None,
      segmentos |-> SegLista(q, NSeg[q]) ]

\* A: every swimmer (own team, other team, unknown) with every competition
\* (SC, LC, other team, unknown); every prueba in an SC and in an LC
\* competition; an unknown prueba
ReqCabecera ==
    { [Base(2) EXCEPT !.nadador_id = n, !.competencia_id = c] :
          n \in 1..3, c \in 1..4 }
    \cup { [Base(q) EXCEPT !.competencia_id = c] : q \in 1..3, c \in 1..2 }
    \cup { [Base(2) EXCEPT !.prueba_id = 4] }

\* B: the phase and the date of the uniqueness tuple
ReqClave ==
    { [Base(2) EXCEPT !.fase = f, !.fecha_registro = d] :
          f \in {"Preliminar", "Final"}, d \in {Fecha1, Fecha2} }

\* C: global times around the tolerance, the 15 m time, non-positive times
ReqTiempos ==
    { [Base(2) EXCEPT !.tiempo_global_cs = @ + dt] : dt \in {-41, -40, 40, 41} }
    \cup { [Base(q) EXCEPT !.tiempo_15m_cs = Some(700)] : q \in 1..3 }
    \cup { [Base(2) EXCEPT !.tiempo_15m_cs = Some(0)],
           [Base(2) EXCEPT !.tiempo_global_cs = 0] }

\* D: one segment fewer and one segment more than the prueba has, and none
ReqNumero ==
    UNION { { [Base(q) EXCEPT !.segmentos = SegLista(q, n)] :
                  n \in {0, NSeg[q] - 1, NSeg[q] + 1} } : q \in 1..3 }

Transposicion(n, a, b) ==
    [j \in 1..n |-> IF j = a THEN b ELSE IF j = b THEN a ELSE j]

Sobrescrito(n, a, v) == [j \in 1..n |-> IF j = a THEN v ELSE j]

\* the index lists within one swap of two neighbours of 1..n (permutations) ...
Permutaciones(n) ==
    { Transposicion(n, a, b) : a \in 1..n, b \in 1..n } \cap
    UNION { { Transposicion(n, a, a), Transposicion(n, a, IF a < n THEN a + 1 ELSE a) } :
                a \in 1..n }
\* ... and within one overwritten entry of 1..n (a repeated or missing index)
NoPermutaciones(n) ==
    { Sobrescrito(n, a, v) : a \in 1..n, v \in 0..(n + 1) } \ Permutaciones(n)

\* E: the segments listed in another order.  "Movidos": each segment keeps
\* its own fields and only its place in the list changes.  "Renumerados":
\* the list keeps its fields by position and the indices are permuted.
ReqOrden ==
    UNION { { [Base(q) EXCEPT !.segmentos = [j \in 1..NSeg[q] |-> SegBase(q, pi[j])]] :
                  pi \in Permutaciones(NSeg[q]) } : q \in 1..2 }
    \cup
    UNION { { [Base(q) EXCEPT !.segmentos =
                  [j \in 1..NSeg[q] |-> [SegBase(q, j) EXCEPT !.indice = pi[j]]]] :
                  pi \in Permutaciones(NSeg[q]) \cup NoPermutaciones(NSeg[q]) } : q \in 1..2 }

\* F: one field of one segment changed
ReqSegmento ==
    UNION { { [Base(q) EXCEPT !.segmentos[j].distancia_m = d] :
                  j \in 1..NSeg[q], d \in {25, 30, 50} } : q \in 2..3 }
    \cup { [Base(q) EXCEPT !.segmentos[2].flecha_m = f] :
                  q \in 2..3, f \in {250, 251, 500, 501} }
    \cup { [Base(1) EXCEPT !.segmentos[j].estilo_segmento = e] :
          j \in 1..NSeg[1], e \in {"Mariposa", "Dorso", "Pecho", "Libre"} }
    \cup { [Base(2) EXCEPT !.segmentos[1].estilo_segmento = "Dorso"],
           [Base(2) EXCEPT !.segmentos[1].tiempo_cs = 0],
           [Base(2) EXCEPT !.segmentos[1].brazadas = 0, !.segmentos[2].brazadas = 0],
           [Base(2) EXCEPT !.segmentos[2].tiempo_cs = @ + 41] }

\* G: two rules broken at once, by different steps of the validation
ReqDoble ==
    { [Base(1) EXCEPT !.segmentos[1].estilo_segmento = "Dorso",
                      !.segmentos[3].flecha_m = 251],
      [Base(1) EXCEPT !.segmentos[2].estilo_segmento = "Libre",
                      !.segmentos[4].distancia_m = 50],
      [Base(1) EXCEPT !.segmentos[3].estilo_segmento = "Dorso",
                      !.segmentos[1].flecha_m = 251],
      [Base(1) EXCEPT !.segmentos[2].estilo_segmento = "Libre",
                      !.tiempo_15m_cs = Some(700)],
      [Base(1) EXCEPT !.segmentos = SegLista(1, 3), !.tiempo_15m_cs = Some(700)],
      [Base(3) EXCEPT !.competencia_id = 1, !.segmentos = SegLista(3, 1)],
      [Base(1) EXCEPT !.nadador_id = 2, !.segmentos[2].distancia_m = 50] }

Llamada(u, d) == [op |-> "create", usuario |-> u, data |-> d]

LlamadaDeleteNadador(u, n) == [op |-> "delete_nadador", usuario |-> u, nadador_id |-> n]

LlamadaComparar(u, id1, id2) ==
    [op |-> "comparar_resultados", usuario |-> u, resultado1_id |-> id1, resultado2_id |-> id2]

LlamadaCreateNadador(u, d) == [op |-> "create_nadador", usuario |-> u, data |-> d]

LlamadaUpdateNadador(u, n, d) ==
    [op |-> "update_nadador", usuario |-> u, nadador_id |-> n, data |-> d]

LlamadaCrearCompetencia(u, d) == [op |-> "crear_competencia", usuario |-> u, data |-> d]

LlamadaActualizarCompetencia(u, c, d) ==
    [op |-> "actualizar_competencia", usuario |-> u, competencia_id |-> c, data |-> d]

LlamadaGetResultado(u, id) ==
    [op |-> "get_resultado_detalle", usuario |-> u, resultado_id |-> id]

\* the query parameters of GET /resultados at their defaults
SinFiltros ==
    [ nadador_id |-> None, competencia_id |-> None, prueba_id |-> None, rama |-> None,
      fecha_inicio |-> None, fecha_fin |-> None, estado_validacion |-> None,
      fase |-> None, sort_by |-> "fecha_registro", sort_order |-> "desc" ]

LlamadaListFiltrada(u, f) == [op |-> "list_resultados", usuario |-> u, filtros |-> f]

LlamadaListResultados(u) == LlamadaListFiltrada(u, SinFiltros)

\* GET /resultados with one filter supplied, with two, and with values of
\* sort_by and sort_order inside and outside the allow-list
FiltrosDeLista ==
    { [SinFiltros EXCEPT !.nadador_id = Some(n)] : n \in {0, 1, 2} }
    \cup { [SinFiltros EXCEPT !.competencia_id = Some(3)],
           [SinFiltros EXCEPT !.prueba_id = Some(1)],
           [SinFiltros EXCEPT !.rama = Some("M")],
           [SinFiltros EXCEPT !.fecha_inicio = Some(<<2024, 6, 15>>)],
           [SinFiltros EXCEPT !.fecha_fin = Some(<<2024, 6, 13>>)],
           [SinFiltros EXCEPT !.estado_validacion = Some("revisar")],
           [SinFiltros EXCEPT !.fase = Some("Preliminar")],
           [SinFiltros EXCEPT !.fase = Some("")],
           [SinFiltros EXCEPT !.nadador_id = Some(1), !.fase = Some("Final")] }
    \cup { [SinFiltros EXCEPT !.sort_by = c, !.sort_order = o] :
              c \in {"tiempo_global_cs", "nadador", "id", "1; DROP TABLE resultado"},
              o \in {"asc", "ASC", "desc", "asc; DELETE FROM resultado"} }

\* the valid submission of the 50 m SC prueba for the swimmer and the
\* competition of team 2
BaseEquipo2 ==
    [Base(2) EXCEPT !.nadador_id = 2, !.competencia_id = 3,
                    !.fecha_registro = <<2024, 7, 1>>]

NadadorNuevo == [fecha_nacimiento |-> <<2012, 3, 1>>, rama |-> "F"]

NadadorCambio == [fecha_nacimiento |-> Some(<<2009, 6, 15>>), rama |-> None]

CompetenciaNueva ==
    [ nombre |-> <<"R", "e", "g">>, curso |-> "SC",
      fecha_inicio |-> <<2024, 8, 1>>, fecha_fin |-> <<2024, 8, 3>> ]

SinCambio == [nombre |-> None, curso |-> None, fecha_inicio |-> None, fecha_fin |-> None]

CompetenciaCambio == [SinCambio EXCEPT !.curso = Some("LC")]

\* the five write requests on nadadores and competencias as sent by a user
\* who is not an entrenador
LlamadasSinPermiso(u) ==
    { LlamadaCreateNadador(u, NadadorNuevo),
      LlamadaUpdateNadador(u, 1, NadadorCambio),
      LlamadaDeleteNadador(u, 1),
      LlamadaCrearCompetencia(u, CompetenciaNueva),
      LlamadaActualizarCompetencia(u, 1, CompetenciaCambio) }

\* sequential universe: the entrenador of team 1 submits every request above;
\* the atleta of team 1 and the entrenador of team 2 submit a few
\* a date one year after the competition, when the swimmer is in the next
\* age band
ReqFueraDeRango == { [Base(2) EXCEPT !.fecha_registro = <<2025, 6, 15>>] }

LlamadasSec ==
    { Llamada(1, d) : d \in ReqCabecera \cup ReqClave \cup ReqTiempos
                              \cup ReqNumero \cup ReqOrden \cup ReqSegmento
                              \cup ReqDoble \cup ReqFueraDeRango }
    \cup { Llamada(2, Base(2)), Llamada(3, Base(2)),
           Llamada(3, [Base(2) EXCEPT !.nadador_id = 2, !.competencia_id = 3]) }
    \cup { LlamadaDeleteNadador(1, 2), LlamadaDeleteNadador(1, 3) }
    \cup LlamadasSinPermiso(2)
    \cup { LlamadaGetResultado(u, id) : u \in {1, 2}, id \in 1..(MaxResultadosSec + 1) }
    \cup { LlamadaListResultados(1) }

\* concurrent universe: two uniqueness tuples, two contents for each, and one
\* malformed submission
LlamadasConc ==
    { Llamada(1, [Base(2) EXCEPT !.fase = f, !.tiempo_global_cs = @ + dt]) :
          f \in {"Preliminar", "Final"}, dt \in {0, 41} }
    \cup { Llamada(1, [Base(2) EXCEPT !.segmentos = SegLista(2, 1)]) }
    \cup { LlamadaDeleteNadador(1, 1) }
    \cup LlamadasSinPermiso(2)
    \cup { LlamadaGetResultado(2, 1), LlamadaListResultados(2) }

\* administration universe: the write requests on nadadores and competencias
\* by the entrenador of team 1, each also by the atleta and by the user with
\* the unrecognised role, and a few submissions of resultados
LlamadasAdmin ==
    { Llamada(u, Base(2)) : u \in {1, 2, 4} }
    \cup { Llamada(1, [Base(2) EXCEPT !.nadador_id = 3]), Llamada(3, BaseEquipo2) }
    \cup { LlamadaGetResultado(u, id) :
              u \in DOMAIN Usuarios, id \in 1..(MaxResultadosSec + 1) }
    \cup { LlamadaListResultados(u) : u \in DOMAIN Usuarios }
    \cup LlamadasSinPermiso(1) \cup LlamadasSinPermiso(2) \cup LlamadasSinPermiso(4)
    \cup { LlamadaCreateNadador(1, [NadadorNuevo EXCEPT !.rama = "X"]),
           LlamadaUpdateNadador(1, 2, NadadorCambio),
           LlamadaUpdateNadador(1, 4, NadadorCambio),
           LlamadaUpdateNadador(1, 1, [NadadorCambio EXCEPT
                                          !.fecha_nacimiento = Some(<<2025, 1, 1>>)]),
           LlamadaDeleteNadador(1, 2),
           LlamadaDeleteNadador(3, 2) }

\* list universe: a resultado of each team and the list under every filter
\* and every ordering, asked by the entrenador of each team
LlamadasLista ==
    { Llamada(1, Base(2)), Llamada(3, BaseEquipo2) }
    \cup { LlamadaListFiltrada(u, f) : u \in {1, 3}, f \in FiltrosDeLista }
    \cup LlamadasSinPermiso(2)
    \cup { LlamadaGetResultado(2, 1), LlamadaComparar(1, 1, 1) }

\* competition universe: the creates and updates of competencias by the
\* entrenador of team 1 with a repeated name, an enclosing range, too long
\* a range, an inverted range, a short name and an unknown curso
LlamadasCompet ==
    { Llamada(1, Base(2)),
      LlamadaCrearCompetencia(1, CompetenciaNueva),
      LlamadaActualizarCompetencia(1, 1, CompetenciaCambio),
      LlamadaGetResultado(2, 1), LlamadaListResultados(2), LlamadaComparar(1, 1, 1) }
    \cup LlamadasSinPermiso(2)
    \cup { LlamadaCrearCompetencia(1, d) :
              d \in { [CompetenciaNueva EXCEPT !.nombre = <<"c", "o", "p", "a">>,
                                               !.fecha_inicio = <<2024, 6, 16>>,
                                               !.fecha_fin = <<2024, 6, 18>>],
                      [CompetenciaNueva EXCEPT !.nombre = <<"c", "o", "p", "a">>,
                                               !.fecha_inicio = <<2024, 6, 10>>,
                                               !.fecha_fin = <<2024, 6, 20>>],
                      [CompetenciaNueva EXCEPT !.fecha_fin = <<2024, 9, 1>>],
                      [CompetenciaNueva EXCEPT !.fecha_fin = <<2024, 7, 30>>],
                      [CompetenciaNueva EXCEPT !.nombre = <<"a", "b">>] } }
    \cup { LlamadaActualizarCompetencia(1, c, d) :
              c \in {1, 3},
              d \in { [SinCambio EXCEPT !.fecha_fin = Some(<<2024, 7, 20>>)],
                      [SinCambio EXCEPT !.fecha_inicio = Some(<<2024, 6, 17>>)],
                      [SinCambio EXCEPT !.curso = Some("XX")] } }
----------------------------------------------------------------------------
(* The database session of a request (SessionLocal: autocommit=False,      *)
(* autoflush=False).  A session is the pair of row sets it has flushed and  *)
(* not yet committed; the committed tables are what every other session     *)
(* reads.  Each operator maps (committed resultado, committed segmento,     *)
(* session) to the same three after the call.                               *)

SesionVacia == [resultado |-> {}, segmentos |-> {}]

DB(res, seg, t) == [res |-> res, seg |-> seg, tx |-> t]

\* the mutant of db_flush: every flush is committed at once (autocommit)
db_flush_autocommit(res, seg, t) ==
    DB(res \cup t.resultado, seg \cup t.segmentos, SesionVacia)

\* db.flush(): the INSERTs are sent inside the open transaction
db_flush(res, seg, t) == DB(res, seg, t)

\* db.commit()
db_commit(res, seg, t) ==
    DB(res \cup t.resultado, seg \cup t.segmentos, SesionVacia)

\* db.rollback()
db_rollback(res, seg, t) == DB(res, seg, SesionVacia)

\* the uniqueness constraint of table resultado on
\* (nadador_id, competencia_id, prueba_id, fase, fecha_registro)
ViolaUnicidad(row, tabla_resultado) ==
    \E r \in tabla_resultado : Clave(r) = Clave(row)

\* the foreign key resultado.nadador_id -> nadador.id: a nadador row that a
\* resultado row refers to cannot be deleted
ReferenciaNadador(nadador_id, tabla_resultado) ==
    \E r \in tabla_resultado : r.nadador_id = nadador_id

----------------------------------------------------------------------------
(* Universe of the run *)

Procs == IF modo = "conc" THEN {1, 2} ELSE {1}
MaxResultados == IF modo \in {"conc", "comp"} THEN MaxResultadosConc ELSE MaxResultadosSec

\* comparison universe: the 50 m SC final, the preliminary of the same swimmer
\* with no strokes in the first length, no streamline in the second and a
\* faster, an equal and a slower length; the 100 m medley; a resultado of
\* team 2; every pair of ids compared by the entrenador of team 1, one pair
\* by the entrenador of team 2
LlamadasComp ==
    { Llamada(1, Base(2)),
      Llamada(1, [Base(2) EXCEPT !.fase = "Preliminar",
                                 !.segmentos[1].brazadas = 0,
                                 !.segmentos[1].tiempo_cs = @ - 30,
                                 !.segmentos[2].flecha_m = 0,
                                 !.segmentos[2].tiempo_cs = @ + 30]),
      Llamada(1, [Base(2) EXCEPT !.fase = "Preliminar", !.fecha_registro = Fecha2]),
      Llamada(1, Base(1)),
      Llamada(3, BaseEquipo2) }
    \cup { LlamadaComparar(1, a, b) : a, b \in 1..(MaxResultadosConc + 1) }
    \cup { LlamadaComparar(3, 1, 2) }
    \cup { LlamadaDeleteNadador(1, 1) }
    \cup LlamadasSinPermiso(2)
    \cup { LlamadaGetResultado(2, 1), LlamadaListResultados(2) }

\* the token the identity provider issues to user u
TokenDe(u) ==
    [ verifica |-> TRUE, payload_completo |-> TRUE, sub |-> Usuarios[u].auth_user_id,
      email |-> Usuarios[u].email, vacio |-> FALSE ]

\* Authorization headers: missing, without a space, of another scheme, with
\* an empty token, with a token that fails verification (signature, expiry,
\* audience or issuer), with an incomplete payload, with a subject that has
\* no usuario row, with another e-mail than the row's, and the headers of
\* users 1 and 2 (one with the scheme in lower case)
Cabeceras ==
    { None, Some(<<"Bearer">>), Some(<<"Basic", TokenDe(1)>>),
      Some(<<"Bearer", TokenVacio>>),
      Some(<<"Bearer", [TokenDe(1) EXCEPT !.verifica = FALSE]>>),
      Some(<<"Bearer", [TokenDe(1) EXCEPT !.payload_completo = FALSE]>>),
      Some(<<"Bearer", [TokenDe(1) EXCEPT !.sub = "sub9"]>>),
      Some(<<"Bearer", [TokenDe(1) EXCEPT !.email = "otro@club"]>>),
      Some(<<"Bearer", [TokenDe(2) EXCEPT !.email = "u1@club"]>>),
      Some(<<"Bearer", TokenDe(1)>>), Some(<<"bearer", TokenDe(1)>>),
      Some(<<"Bearer", TokenDe(2)>>) }

\* request ll as it arrives with Authorization header h: current_user is the
\* user that get_current_user resolves, 0 when it resolves none
ConAutorizacion(ll, h) ==
    [ k \in DOMAIN ll \cup {"authorization"} |->
        IF k = "authorization" THEN h
        ELSE IF k = "usuario"
          THEN IF get_current_user(Usuarios, h).status = 200
               THEN get_current_user(Usuarios, h).usuario ELSE 0
        ELSE ll[k] ]

\* authentication universe: one request of each endpoint under every header
LlamadasAuth ==
    { ConAutorizacion(ll, h) :
        ll \in { Llamada(0, Base(2)), LlamadaDeleteNadador(0, 1),
                 LlamadaCreateNadador(0, NadadorNuevo),
                 LlamadaUpdateNadador(0, 1, NadadorCambio),
                 LlamadaCrearCompetencia(0, CompetenciaNueva),
                 LlamadaActualizarCompetencia(0, 1, CompetenciaCambio),
                 LlamadaGetResultado(0, 1), LlamadaListResultados(0),
                 LlamadaComparar(0, 1, 1) },
        h \in Cabeceras }

\* a request without Authorization header, in every universe
LlamadaSinCabecera == ConAutorizacion(LlamadaListResultados(0), None)

\* the requests of the run by endpoint: POST /resultados, and the others
LlamadasSecCreate == {ll \in LlamadasSec : ll.op = "create"}
LlamadasConcCreate == {ll \in LlamadasConc : ll.op = "create"}
LlamadasAdminCreate == {ll \in LlamadasAdmin : ll.op = "create"}
LlamadasAuthCreate == {ll \in LlamadasAuth : ll.op = "create"}
LlamadasCompCreate == {ll \in LlamadasComp : ll.op = "create"}
LlamadasListaCreate == {ll \in LlamadasLista : ll.op = "create"}
LlamadasCompetCreate == {ll \in LlamadasCompet : ll.op = "create"}
LlamadasCreate ==
    CASE modo = "conc" -> LlamadasConcCreate
      [] modo = "admin" -> LlamadasAdminCreate
      [] modo = "auth" -> LlamadasAuthCreate
      [] modo = "comp" -> LlamadasCompCreate
      [] modo = "lista" -> LlamadasListaCreate
      [] modo = "compet" -> LlamadasCompetCreate
      [] OTHER -> LlamadasSecCreate
LlamadasSecOtras ==
    {ll \in LlamadasSec : ll.op # "create"} \cup {LlamadaSinCabecera, LlamadaComparar(1, 1, 1)}
LlamadasConcOtras ==
    {ll \in LlamadasConc : ll.op # "create"} \cup {LlamadaSinCabecera, LlamadaComparar(1, 1, 2)}
LlamadasAdminOtras ==
    {ll \in LlamadasAdmin : ll.op # "create"} \cup {LlamadaSinCabecera, LlamadaComparar(3, 1, 1)}
LlamadasAuthOtras == {ll \in LlamadasAuth : ll.op # "create"}
LlamadasCompOtras == {ll \in LlamadasComp : ll.op # "create"} \cup {LlamadaSinCabecera}
LlamadasListaOtras == {ll \in LlamadasLista : ll.op # "create"} \cup {LlamadaSinCabecera}
LlamadasCompetOtras == {ll \in LlamadasCompet : ll.op # "create"} \cup {LlamadaSinCabecera}
LlamadasOtras ==
    CASE modo = "conc" -> LlamadasConcOtras
      [] modo = "admin" -> LlamadasAdminOtras
      [] modo = "auth" -> LlamadasAuthOtras
      [] modo = "comp" -> LlamadasCompOtras
      [] modo = "lista" -> LlamadasListaOtras
      [] modo = "compet" -> LlamadasCompetOtras
      [] OTHER -> LlamadasSecOtras

SinLlamada == [op |-> "ninguna"]
SinRespuesta == [status |-> 0, detail |-> "ninguna"]
SinLocales == [segmentos_creados |-> <<>>]

InitCon(m, procs) ==
    /\ modo = m
    /\ nadador = NadadoresIniciales
    /\ competencia = CompetenciasIniciales
    /\ resultado = {}
    /\ segmento = {}
    /\ seq_resultado = 1
    /\ seq_nadador = 3
    /\ seq_competencia = 4
    /\ pc = [p \in procs |-> "idle"]
    /\ req = [p \in procs |-> SinLlamada]
    /\ tx = [p \in procs |-> SesionVacia]
    /\ loc = [p \in procs |-> SinLocales]
    /\ resp = [p \in procs |-> SinRespuesta]

Init == InitCon("sec", {1})
InitConc == InitCon("conc", {1, 2})
InitAdmin == InitCon("admin", {1})
InitAuth == InitCon("auth", {1})
InitComp == InitCon("comp", {1})
InitLista == InitCon("lista", {1})
InitCompet == InitCon("compet", {1})

\* the request slots that hold a validated request and no resultado id yet
PorInsertar == {p \in Procs : pc[p] = "validado"}

----------------------------------------------------------------------------
(* POST /resultados : create_resultado *)

\* the Resultado(...) object of lines 409-421, with the id the INSERT gives it
FilaResultado(id, data, categoria_label, resumen, user) ==
    [ id |-> id,
      nadador_id |-> data.nadador_id,
      competencia_id |-> data.competencia_id,
      prueba_id |-> data.prueba_id,
      fase |-> data.fase,
      fecha_registro |-> data.fecha_registro,
      tiempo_global_cs |-> data.tiempo_global_cs,
      tiempo_15m_cs |-> data.tiempo_15m_cs,
      categoria_label |-> categoria_label,
      estado_validacion |-> estado_validacion_inicial(resumen),
      desviacion_parciales_cs |-> resumen.desviacion_cs,
      capturado_por |-> user.id ]

\* the Segmento(...) object of lines 431-439
FilaSegmento(resultado_id, seg) ==
    [ resultado_id |-> resultado_id,
      indice |-> seg.indice,
      estilo_segmento |-> seg.estilo_segmento,
      distancia_m |-> seg.distancia_m,
      tiempo_cs |-> seg.tiempo_cs,
      brazadas |-> seg.brazadas,
      flecha_m |-> seg.flecha_m ]

\* the response of a request that ends with an HTTPException
Rechazar(p, ll, error) ==
    /\ pc' = [pc EXCEPT ![p] = "idle"]
    /\ req' = [req EXCEPT ![p] = ll]
    /\ resp' = [resp EXCEPT ![p] = error]

\* "except ...: db.rollback(); raise": the open transaction is rolled back
\* and the request ends with the given error
Abortar(p, error) ==
    LET d == db_rollback(resultado, segmento, tx[p])
    IN /\ resultado' = d.res
       /\ segmento' = d.seg
       /\ tx' = [tx EXCEPT ![p] = d.tx]
       /\ pc' = [pc EXCEPT ![p] = "idle"]
       /\ loc' = [loc EXCEPT ![p] = SinLocales]
       /\ resp' = [resp EXCEPT ![p] = error]

ErrorInterno(excepcion) ==
    [status |-> 500, detail |-> "Error interno creando resultado", excepcion |-> excepcion]

\* The dependencies and the validation step: the permission dependency
\* (CanCreateResultados), the request-body schema, _validar_datos_resultado.
CreateResultado(p, ll) ==
    /\ pc[p] = "idle"
    /\ ll.op = "create"
    /\ Autenticada(ll)
    /\ LET user == Usuarios[ll.usuario]
           v == _validar_datos_resultado(nadador, competencia, resultado,
                                         ll.data, user.equipo_id)
       IN IF ~validate_permission(user, "registrar_resultados")
            THEN /\ Rechazar(p, ll, Error(403, "insufficient_permissions"))
                 /\ UNCHANGED <<resultado, segmento, tx, loc>>
          ELSE IF ~ResultadoCreateValido(ll.data)
            THEN /\ Rechazar(p, ll, Error(422, "request_validation"))
                 /\ UNCHANGED <<resultado, segmento, tx, loc>>
          ELSE IF v.status # 200
            THEN \* except HTTPException: db.rollback(); raise
                 /\ Abortar(p, v)
                 /\ req' = [req EXCEPT ![p] = ll]
          ELSE /\ seq_resultado + Cardinality(PorInsertar) <= MaxResultados
               /\ pc' = [pc EXCEPT ![p] = "validado"]
               /\ req' = [req EXCEPT ![p] = ll]
               /\ resp' = [resp EXCEPT ![p] = SinRespuesta]
               /\ UNCHANGED <<resultado, segmento, tx, loc>>
    /\ UNCHANGED <<modo, seq_nadador, seq_competencia, nadador, competencia, seq_resultado>>

\* _calcular_categoria_resultado: the 404 raised inside its try block is
\* caught by its own "except Exception" and leaves as a 500
_calcular_categoria_resultado(tabla_nadador, nadador_id, fecha_competencia) ==
    IF nadador_id \notin DOMAIN tabla_nadador
    THEN [status |-> 500, detail |-> "Error calculando categoria del nadador",
          excepcion |-> "HTTPException_404"]
    ELSE [status |-> 200, detail |-> "ok",
          categoria |-> calcular_categoria_en_fecha(
                            tabla_nadador[nadador_id].fecha_nacimiento, fecha_competencia)]

\* another open transaction holds an uncommitted row with the same unique
\* key: the INSERT waits until that transaction commits or rolls back
EsperaUnicidad(p, row) ==
    \E o \in Procs \ {p} : ViolaUnicidad(row, tx[o].resultado)

\* Lines 384-424: category, summary, Resultado(...), db.add, db.flush
InsertarResultado(p) ==
    /\ pc[p] = "validado"
    /\ LET data == req[p].data
           user == Usuarios[req[p].usuario]
           distancia_prueba == Prueba[data.prueba_id].distancia
           fecha_competencia == data.fecha_registro
           cat == _calcular_categoria_resultado(nadador, data.nadador_id, fecha_competencia)
           resumen == _calcular_resumen_global(data.segmentos, data.tiempo_global_cs,
                                               distancia_prueba)
           row == FilaResultado(seq_resultado, data, cat.categoria, resumen, user)
           d == db_flush(resultado, segmento, [tx[p] EXCEPT !.resultado = @ \cup {row}])
       IN IF cat.status # 200
            THEN /\ Abortar(p, cat)
                 /\ UNCHANGED seq_resultado
          ELSE IF data.tiempo_global_cs = 0
            THEN \* Decimal division by zero in velocidad_promedio_mps
                 /\ Abortar(p, ErrorInterno("DivisionByZero"))
                 /\ UNCHANGED seq_resultado
          ELSE /\ ~EsperaUnicidad(p, row)
               /\ seq_resultado' = seq_resultado + 1
               /\ IF ViolaUnicidad(row, resultado)
                    THEN Abortar(p, ErrorInterno("IntegrityError"))
                    ELSE /\ resultado' = d.res
                         /\ segmento' = d.seg
                         /\ tx' = [tx EXCEPT ![p] = d.tx]
                         /\ loc' = [loc EXCEPT ![p] =
                                [resultado |-> row, resumen |-> resumen,
                                 segmentos_creados |-> <<>>]]
                         /\ pc' = [pc EXCEPT ![p] = "resultado_flushed"]
                         /\ UNCHANGED resp
    /\ UNCHANGED <<modo, seq_nadador, seq_competencia, nadador, competencia, req>>

\* Lines 430-445: one INSERT of the flush of the segments, in list order
InsertarSegmento(p) ==
    /\ pc[p] = "resultado_flushed"
    /\ LET data == req[p].data
           k == Len(loc[p].segmentos_creados) + 1
           row == FilaSegmento(loc[p].resultado.id, data.segmentos[k])
           d == db_flush(resultado, segmento, [tx[p] EXCEPT !.segmentos = @ \cup {row}])
       IN /\ resultado' = d.res
          /\ segmento' = d.seg
          /\ tx' = [tx EXCEPT ![p] = d.tx]
          /\ loc' = [loc EXCEPT ![p].segmentos_creados = Append(@, row)]
          /\ pc' = [pc EXCEPT ![p] =
                        IF k = Len(data.segmentos) THEN "segmentos_flushed" ELSE @]
    /\ UNCHANGED <<modo, seq_nadador, seq_competencia, nadador, competencia, seq_resultado, req, resp>>

\* Lines 450-464: db.commit(), db.refresh(resultado), the 201 response
Commit(p) ==
    /\ pc[p] = "segmentos_flushed"
    /\ LET d == db_commit(resultado, segmento, tx[p])
           refrescado == CHOOSE r \in d.res : r.id = loc[p].resultado.id
       IN /\ resultado' = d.res
          /\ segmento' = d.seg
          /\ tx' = [tx EXCEPT ![p] = d.tx]
          /\ resp' = [resp EXCEPT ![p] =
                 [status |-> 201, detail |-> "creado",
                  resultado |-> refrescado,
                  segmentos |-> loc[p].segmentos_creados,
                  resumen_global |-> loc[p].resumen]]
    /\ pc' = [pc EXCEPT ![p] = "idle"]
    /\ loc' = [loc EXCEPT ![p] = SinLocales]
    /\ UNCHANGED <<modo, seq_nadador, seq_competencia, nadador, competencia, seq_resultado, req>>

\* Lines 469-475: the next statement sent to the database fails (connection
\* lost, statement timeout): except Exception: db.rollback(), 500
ErrorAlmacenamiento(p) ==
    /\ pc[p] \in {"validado", "resultado_flushed", "segmentos_flushed"}
    /\ Abortar(p, ErrorInterno("OperationalError"))
    /\ UNCHANGED <<modo, seq_nadador, seq_competencia, nadador, competencia, seq_resultado, req>>

----------------------------------------------------------------------------
(* DELETE /nadadores/{nadador_id} : delete_nadador *)

\* validate_team_access(user, resource_team_id)
validate_team_access(user, resource_team_id) == user.equipo_id = resource_team_id

\* the response of a request that touches no table
Responder(p, ll, r) ==
    /\ req' = [req EXCEPT ![p] = ll]
    /\ resp' = [resp EXCEPT ![p] = r]

\* a resultado row flushed by an open transaction refers to the nadador: the
\* DELETE waits for that transaction to end
EsperaReferencia(p, nadador_id) ==
    \E o \in Procs \ {p} : ReferenciaNadador(nadador_id, tx[o].resultado)

delete_nadador(p, ll) ==
    /\ pc[p] = "idle"
    /\ ll.op = "delete_nadador"
    /\ Autenticada(ll)
    /\ LET user == Usuarios[ll.usuario]
           nadador_id == ll.nadador_id
       IN IF ~is_trainer(user)
            THEN \* require_delete_permission
                 /\ Responder(p, ll, Error(403, "insufficient_permissions"))
                 /\ UNCHANGED nadador
          ELSE IF nadador_id \notin DOMAIN nadador
            THEN /\ Responder(p, ll, Error(404, "nadador_not_found"))
                 /\ UNCHANGED nadador
          ELSE IF ~validate_team_access(user, nadador[nadador_id].equipo_id)
            THEN /\ Responder(p, ll, Error(403, "team_access_denied"))
                 /\ UNCHANGED nadador
          ELSE /\ ~EsperaReferencia(p, nadador_id)
               /\ IF ReferenciaNadador(nadador_id, resultado)
                    THEN \* IntegrityError: except Exception: db.rollback(), 500
                         /\ Responder(p, ll, [status |-> 500, detail |-> "database_error",
                                              excepcion |-> "IntegrityError"])
                         /\ UNCHANGED nadador
                    ELSE /\ nadador' = [n \in DOMAIN nadador \ {nadador_id} |-> nadador[n]]
                         /\ Responder(p, ll, [status |-> 204, detail |-> "eliminado"])
    /\ UNCHANGED <<modo, seq_nadador, seq_competencia, competencia, resultado, segmento, seq_resultado, pc, tx, loc>>

----------------------------------------------------------------------------
(* POST /nadadores : create_nadador, PATCH /nadadores/{id} : update_nadador *)

\* NadadorCreate: rama is F or M, fecha_nacimiento is not in the future
NadadorCreateValido(data) ==
    /\ data.rama \in {"F", "M"}
    /\ ~FechaMenor(Hoy, data.fecha_nacimiento)

\* NadadorUpdate: the same rules for the fields that are given
NadadorUpdateValido(data) ==
    /\ (IsNone(data.rama) \/ Val(data.rama) \in {"F", "M"})
    /\ (IsNone(data.fecha_nacimiento) \/ ~FechaMenor(Hoy, Val(data.fecha_nacimiento)))

\* the table with row id set to fila (inserted or replaced)
ConFila(tabla, id, fila) ==
    [n \in DOMAIN tabla \cup {id} |-> IF n = id THEN fila ELSE tabla[n]]

\* _create_nadador_response: the row and its categoria_actual
NadadorResponse(status, id, fila) ==
    [status |-> status, detail |-> "nadador", id |-> id,
     equipo_id |-> fila.equipo_id, fecha_nacimiento |-> fila.fecha_nacimiento,
     categoria_actual |-> Nadador_calcular_categoria(fila, Hoy)]

\* of the columns of nadador the model keeps equipo_id and fecha_nacimiento
create_nadador(p, ll) ==
    /\ pc[p] = "idle"
    /\ ll.op = "create_nadador"
    /\ Autenticada(ll)
    /\ LET user == Usuarios[ll.usuario]
           fila == [equipo_id |-> user.equipo_id,
                    fecha_nacimiento |-> ll.data.fecha_nacimiento,
                    rama |-> ll.data.rama]
       IN IF ~validate_permission(user, "crear_nadadores")
            THEN /\ Responder(p, ll, Error(403, "insufficient_permissions"))
                 /\ UNCHANGED <<nadador, seq_nadador>>
          ELSE IF ~NadadorCreateValido(ll.data)
            THEN /\ Responder(p, ll, Error(422, "request_validation"))
                 /\ UNCHANGED <<nadador, seq_nadador>>
          ELSE /\ seq_nadador <= MaxNadadores
               /\ nadador' = ConFila(nadador, seq_nadador, fila)
               /\ seq_nadador' = seq_nadador + 1
               /\ Responder(p, ll, NadadorResponse(201, seq_nadador, fila))
    /\ UNCHANGED <<modo, seq_competencia, competencia, resultado, segmento,
                   seq_resultado, pc, tx, loc>>

update_nadador(p, ll) ==
    /\ pc[p] = "idle"
    /\ ll.op = "update_nadador"
    /\ Autenticada(ll)
    /\ LET user == Usuarios[ll.usuario]
           nadador_id == ll.nadador_id
           fila == [nadador[nadador_id] EXCEPT
                       !.fecha_nacimiento = IF IsNone(ll.data.fecha_nacimiento) THEN @
                                            ELSE Val(ll.data.fecha_nacimiento),
                       !.rama = IF IsNone(ll.data.rama) THEN @ ELSE Val(ll.data.rama)]
       IN IF ~validate_permission(user, "editar_nadadores")
            THEN /\ Responder(p, ll, Error(403, "insufficient_permissions"))
                 /\ UNCHANGED nadador
          ELSE IF ~NadadorUpdateValido(ll.data)
            THEN /\ Responder(p, ll, Error(422, "request_validation"))
                 /\ UNCHANGED nadador
          ELSE IF nadador_id \notin DOMAIN nadador
            THEN /\ Responder(p, ll, Error(404, "nadador_not_found"))
                 /\ UNCHANGED nadador
          ELSE IF ~validate_team_access(user, nadador[nadador_id].equipo_id)
            THEN /\ Responder(p, ll, Error(403, "team_access_denied"))
                 /\ UNCHANGED nadador
          ELSE /\ nadador' = ConFila(nadador, nadador_id, fila)
               /\ Responder(p, ll, NadadorResponse(200, nadador_id, fila))
    /\ UNCHANGED <<modo, seq_nadador, seq_competencia, competencia, resultado, segmento,
                   seq_resultado, pc, tx, loc>>

----------------------------------------------------------------------------
(* POST /competencias : crear_competencia,                                  *)
(* PATCH /competencias/{id} : actualizar_competencia.                       *)
(* A nombre is a sequence of characters.                                    *)

\* lower-casing of the letters the names of the model are written with
Minuscula(ch) ==
    CASE ch = "A" -> "a" [] ch = "C" -> "c" [] ch = "O" -> "o" [] ch = "P" -> "p"
      [] ch = "R" -> "r" [] OTHER -> ch

\* columna ILIKE patron, for a pattern without "%": the lengths agree and each
\* character of the pattern is "_" or equals the column's, whatever the case
ilike(columna, patron) ==
    /\ Len(columna) = Len(patron)
    /\ \A i \in 1..Len(patron) :
           patron[i] = "_" \/ Minuscula(columna[i]) = Minuscula(patron[i])

\* validate_nombre: at least 3 characters out of letters, digits, blanks and
\* - _ . ( )
NombreValido(nombre) ==
    /\ Len(nombre) >= 3
    /\ \A i \in 1..Len(nombre) : nombre[i] \notin {"%", "/", "*"}

\* validate_fecha_inicio and validate_fecha_fin: the window around today.
\* The comparison of fecha_fin with fecha_inicio in validate_fecha_fin sits
\* under "hasattr(info.data, 'fecha_inicio')", which is false for the dict
\* info.data, so it never runs.
FechaInicioValida(f) ==
    /\ toordinal(f) >= toordinal(Hoy) - 365 * 6
    /\ toordinal(f) <= toordinal(Hoy) + 365 * 5

FechaFinValida(f) == toordinal(f) <= toordinal(Hoy) + 365 * 5

CompetenciaCreateValida(data) ==
    /\ NombreValido(data.nombre)
    /\ data.curso \in {"SC", "LC"}
    /\ FechaInicioValida(data.fecha_inicio)
    /\ FechaFinValida(data.fecha_fin)

CompetenciaUpdateValida(data) ==
    /\ (IsNone(data.nombre) \/ NombreValido(Val(data.nombre)))
    /\ (IsNone(data.curso) \/ Val(data.curso) \in {"SC", "LC"})
    /\ (IsNone(data.fecha_inicio) \/ FechaInicioValida(Val(data.fecha_inicio)))
    /\ (IsNone(data.fecha_fin) \/ FechaFinValida(Val(data.fecha_fin)))

\* '[f,f]' && rango_fechas
RangoContiene(c, f) ==
    /\ ~FechaMenor(f, c.fecha_inicio)
    /\ ~FechaMenor(c.fecha_fin, f)

\* the duplicate query of crear_competencia.  Its third condition is the
\* text "A && rango_fechas OR B && rango_fechas", which and_() joins without
\* parentheses: equipo AND nombre AND A OR B
competencia_existente(tabla_competencia, data, equipo_id) ==
    \E c \in DOMAIN tabla_competencia :
        \/ /\ tabla_competencia[c].equipo_id = equipo_id
           /\ ilike(tabla_competencia[c].nombre, data.nombre)
           /\ RangoContiene(tabla_competencia[c], data.fecha_inicio)
        \/ RangoContiene(tabla_competencia[c], data.fecha_fin)

\* the daterange column rejects '[inicio,fin]' with inicio after fin
RangoInvalido(fecha_inicio, fecha_fin) == FechaMenor(fecha_fin, fecha_inicio)

CompetenciaResponse(status, id, fila) ==
    [status |-> status, detail |-> "competencia", id |-> id,
     nombre |-> fila.nombre, curso |-> fila.curso,
     fecha_inicio |-> fila.fecha_inicio, fecha_fin |-> fila.fecha_fin]

crear_competencia(p, ll) ==
    /\ pc[p] = "idle"
    /\ ll.op = "crear_competencia"
    /\ Autenticada(ll)
    /\ LET user == Usuarios[ll.usuario]
           data == ll.data
           duracion == toordinal(data.fecha_fin) - toordinal(data.fecha_inicio)
           fila == [equipo_id |-> user.equipo_id, curso |-> data.curso,
                    nombre |-> data.nombre,
                    fecha_inicio |-> data.fecha_inicio, fecha_fin |-> data.fecha_fin]
       IN IF ~validate_permission(user, "crear_competencias")
            THEN /\ Responder(p, ll, Error(403, "insufficient_permissions"))
                 /\ UNCHANGED <<competencia, seq_competencia>>
          ELSE IF ~CompetenciaCreateValida(data)
            THEN /\ Responder(p, ll, Error(422, "request_validation"))
                 /\ UNCHANGED <<competencia, seq_competencia>>
          ELSE IF duracion > 30
            THEN /\ Responder(p, ll, Error(422, "duracion_excede_30_dias"))
                 /\ UNCHANGED <<competencia, seq_competencia>>
          ELSE IF competencia_existente(competencia, data, user.equipo_id)
            THEN /\ Responder(p, ll, Error(422, "nombre_en_fechas_similares"))
                 /\ UNCHANGED <<competencia, seq_competencia>>
          ELSE IF RangoInvalido(data.fecha_inicio, data.fecha_fin)
            THEN \* DataError: except Exception: db.rollback(), 500
                 /\ Responder(p, ll, [status |-> 500,
                                      detail |-> "Error interno del servidor",
                                      excepcion |-> "DataError"])
                 /\ UNCHANGED <<competencia, seq_competencia>>
          ELSE /\ seq_competencia <= MaxCompetencias
               /\ seq_competencia' = seq_competencia + 1
               /\ competencia' = ConFila(competencia, seq_competencia, fila)
               /\ Responder(p, ll, CompetenciaResponse(201, seq_competencia, fila))
    /\ UNCHANGED <<modo, seq_nadador, nadador, resultado, segmento,
                   seq_resultado, pc, tx, loc>>

actualizar_competencia(p, ll) ==
    /\ pc[p] = "idle"
    /\ ll.op = "actualizar_competencia"
    /\ Autenticada(ll)
    /\ LET user == Usuarios[ll.usuario]
           data == ll.data
           id == ll.competencia_id
           con_fechas == ~IsNone(data.fecha_inicio) \/ ~IsNone(data.fecha_fin)
           fecha_inicio == IF IsNone(data.fecha_inicio) THEN competencia[id].fecha_inicio
                           ELSE Val(data.fecha_inicio)
           fecha_fin == IF IsNone(data.fecha_fin) THEN competencia[id].fecha_fin
                        ELSE Val(data.fecha_fin)
           duracion == toordinal(fecha_fin) - toordinal(fecha_inicio)
           fila == [competencia[id] EXCEPT
                       !.nombre = IF IsNone(data.nombre) THEN @ ELSE Val(data.nombre),
                       !.curso = IF IsNone(data.curso) THEN @ ELSE Val(data.curso),
                       !.fecha_inicio = fecha_inicio,
                       !.fecha_fin = fecha_fin]
       IN IF ~validate_permission(user, "editar_competencias")
            THEN /\ Responder(p, ll, Error(403, "insufficient_permissions"))
                 /\ UNCHANGED competencia
          ELSE IF ~CompetenciaUpdateValida(data)
            THEN /\ Responder(p, ll, Error(422, "request_validation"))
                 /\ UNCHANGED competencia
          ELSE IF \/ id \notin DOMAIN competencia
                  \/ competencia[id].equipo_id # user.equipo_id
            THEN /\ Responder(p, ll, Error(404, "competencia_no_encontrada"))
                 /\ UNCHANGED competencia
          ELSE IF con_fechas /\ FechaMenor(fecha_fin, fecha_inicio)
            THEN /\ Responder(p, ll, Error(422, "fecha_fin_anterior"))
                 /\ UNCHANGED competencia
          ELSE IF con_fechas /\ duracion > 30
            THEN /\ Responder(p, ll, Error(422, "duracion_excede_30_dias"))
                 /\ UNCHANGED competencia
          ELSE /\ competencia' = ConFila(competencia, id, fila)
               /\ Responder(p, ll, CompetenciaResponse(200, id, fila))
    /\ UNCHANGED <<modo, seq_nadador, seq_competencia, nadador, resultado, segmento,
                   seq_resultado, pc, tx, loc>>

----------------------------------------------------------------------------
(* PATCH /resultados/{id}/revisar : toggle_estado_revision *)

\* the mutant of current_user_get: a dict-style lookup that answers the role
current_user_get_dict(user, key) ==
    [raises |-> FALSE, value |-> IF key = "role" THEN Some(user.rol) ELSE None]

\* current_user.get("role"): current_user is a Usuario (a SQLModel object),
\* which defines no method get, so the attribute lookup raises AttributeError
current_user_get(user, key) == [raises |-> TRUE, value |-> None]

ToggleEstadoRevision(p, u, resultado_id) ==
    /\ pc[p] = "idle"
    /\ LET user == Usuarios[u]
           role == current_user_get(user, "role")
           filas == {r \in resultado : r.id = resultado_id}
           fila == CHOOSE r \in filas : TRUE
           nuevo_estado == IF fila.estado_validacion = "valido" THEN "revisar" ELSE "valido"
       IN IF role.raises
            THEN /\ resp' = [resp EXCEPT ![p] =
                        [status |-> 500, detail |-> "Internal Server Error",
                         excepcion |-> "AttributeError"]]
                 /\ UNCHANGED resultado
          ELSE IF role.value # Some("entrenador")
            THEN /\ resp' = [resp EXCEPT ![p] = Error(403, "solo_entrenadores")]
                 /\ UNCHANGED resultado
          ELSE IF filas = {}
            THEN /\ resp' = [resp EXCEPT ![p] = Error(404, "resultado_no_encontrado")]
                 /\ UNCHANGED resultado
          ELSE /\ resultado' = (resultado \ {fila})
                        \cup {[fila EXCEPT !.estado_validacion = nuevo_estado]}
               /\ resp' = [resp EXCEPT ![p] =
                      [status |-> 200, detail |-> "estado_cambiado",
                       resultado_id |-> resultado_id,
                       nuevo_estado |-> nuevo_estado,
                       estado_anterior |-> fila.estado_validacion]]
    /\ req' = [req EXCEPT ![p] =
                  [op |-> "toggle", usuario |-> u, resultado_id |-> resultado_id]]
    /\ UNCHANGED <<modo, seq_nadador, seq_competencia, nadador, competencia, segmento, seq_resultado, pc, tx, loc>>

----------------------------------------------------------------------------
(* GET /resultados/{id} and GET /resultados *)

\* ORDER BY s.indice ASC
RECURSIVE OrdenadoPorIndice(_)
OrdenadoPorIndice(filas) ==
    IF filas = {} THEN <<>>
    ELSE LET primero == CHOOSE s \in filas : \A t \in filas : s.indice <= t.indice
         IN <<primero>> \o OrdenadoPorIndice(filas \ {primero})

\* the view resultado_agregado: one row for each resultado, holding the sums
\* over its segmento rows and the difference between the sum of their times
\* and tiempo_global_cs
resultado_agregado(tabla_resultado, tabla_segmento) ==
    { LET segs == OrdenadoPorIndice({s \in tabla_segmento : s.resultado_id = r.id})
          suma == SumSeq([j \in 1..Len(segs) |-> segs[j].tiempo_cs])
          brazadas == SumSeq([j \in 1..Len(segs) |-> segs[j].brazadas])
          sin_flecha == SumSeq([j \in 1..Len(segs) |->
                                   Max(segs[j].distancia_m * 10 - segs[j].flecha_m, 0)])
      IN [ resultado_id |-> r.id,
           suma_parciales_cs |-> suma,
           desviacion_cs |-> suma - r.tiempo_global_cs,
           brazadas_globales |-> brazadas,
           flecha_total_m |-> SumSeq([j \in 1..Len(segs) |-> segs[j].flecha_m]),
           distancia_sin_flecha_total_m |-> sin_flecha,
           distancia_total_m |-> Prueba[r.prueba_id].distancia,
           velocidad_promedio_mps |->
               <<Prueba[r.prueba_id].distancia * 100, r.tiempo_global_cs>>,
           distancia_por_brazada_global_m |->
               IF brazadas > 0 THEN Some(<<sin_flecha, brazadas>>) ELSE None ]
      : r \in tabla_resultado }

\* resultado r INNER JOIN nadador, competencia, prueba
FilaConJoins(r) ==
    /\ r.nadador_id \in DOMAIN nadador
    /\ r.competencia_id \in DOMAIN competencia
    /\ r.prueba_id \in DOMAIN Prueba

\* the mutant of requiere_revision_detalle: the comparison includes the tolerance
requiere_revision_detalle_inclusivo(desviacion_absoluta) == desviacion_absoluta >= 40

\* lines 596-597: requiere_revision = desviacion_absoluta > 40
requiere_revision_detalle(desviacion_absoluta) == desviacion_absoluta > 40

\* lines 600-611: the ResumenGlobal built from the row of the view
ResumenDeVista(resumen_raw) ==
    [ suma_parciales_cs |-> resumen_raw.suma_parciales_cs,
      desviacion_cs |-> resumen_raw.desviacion_cs,
      desviacion_absoluta_cs |-> Abs(resumen_raw.desviacion_cs),
      requiere_revision |-> requiere_revision_detalle(Abs(resumen_raw.desviacion_cs)),
      brazadas_totales |-> resumen_raw.brazadas_globales,
      flecha_total_m |-> resumen_raw.flecha_total_m,
      distancia_sin_flecha_total_m |-> resumen_raw.distancia_sin_flecha_total_m,
      distancia_total_m |-> resumen_raw.distancia_total_m,
      velocidad_promedio_mps |-> resumen_raw.velocidad_promedio_mps,
      distancia_por_brazada_global_m |-> resumen_raw.distancia_por_brazada_global_m ]

\* the response of GET /resultados/{resultado_id} over the committed tables;
\* current_user is only authenticated, the handler does not read it
DetalleDe(tabla_resultado, tabla_segmento, resultado_id) ==
    LET filas == {r \in tabla_resultado : r.id = resultado_id /\ FilaConJoins(r)}
        resultado_raw == CHOOSE r \in filas : TRUE
        segmentos_raw ==
            OrdenadoPorIndice({s \in tabla_segmento : s.resultado_id = resultado_id})
        vista == {v \in resultado_agregado(tabla_resultado, tabla_segmento) :
                      v.resultado_id = resultado_id}
        resumen_raw == CHOOSE v \in vista : TRUE
    IN IF filas = {} THEN Error(404, "resultado_no_encontrado")
       ELSE IF vista = {} THEN Error(500, "Error obteniendo metricas calculadas")
       ELSE [ status |-> 200, detail |-> "detalle",
              resultado |-> resultado_raw,
              segmentos |-> segmentos_raw,
              resumen_global |-> ResumenDeVista(resumen_raw) ]

get_resultado_detalle(p, ll) ==
    /\ pc[p] = "idle"
    /\ ll.op = "get_resultado_detalle"
    /\ Autenticada(ll)
    /\ Responder(p, ll, DetalleDe(resultado, segmento, ll.resultado_id))
    /\ UNCHANGED <<modo, seq_nadador, seq_competencia, nadador, competencia, resultado,
                   segmento, seq_resultado, pc, tx, loc>>

\* the rows GET /resultados selects for a user who sets no filter: those whose
\* nadador_id is IN (SELECT id FROM nadador WHERE equipo_id = :equipo_id)
ListaDe(tabla_nadador, tabla_resultado, equipo_id) ==
    { r \in tabla_resultado :
          /\ FilaConJoins(r)
          /\ r.nadador_id \in {n \in DOMAIN tabla_nadador :
                                   tabla_nadador[n].equipo_id = equipo_id} }

\* "if nadador_id:" and its like: a parameter that is None, 0 or the empty
\* string adds no condition; a date that is supplied always does
AplicaEntero(v) == ~IsNone(v) /\ Val(v) # 0
AplicaTexto(v) == ~IsNone(v) /\ Val(v) # ""
AplicaFecha(v) == ~IsNone(v)

\* lines 768-804: the WHERE clause, the conditions joined with AND
where_clause(tabla_nadador, r, equipo_id, f) ==
    /\ r.nadador_id \in {n \in DOMAIN tabla_nadador : tabla_nadador[n].equipo_id = equipo_id}
    /\ AplicaEntero(f.nadador_id) => r.nadador_id = Val(f.nadador_id)
    /\ AplicaEntero(f.competencia_id) => r.competencia_id = Val(f.competencia_id)
    /\ AplicaEntero(f.prueba_id) => r.prueba_id = Val(f.prueba_id)
    /\ AplicaTexto(f.rama) => tabla_nadador[r.nadador_id].rama = Val(f.rama)
    /\ AplicaFecha(f.fecha_inicio) => ~FechaMenor(r.fecha_registro, Val(f.fecha_inicio))
    /\ AplicaFecha(f.fecha_fin) => ~FechaMenor(Val(f.fecha_fin), r.fecha_registro)
    /\ AplicaTexto(f.estado_validacion) => r.estado_validacion = Val(f.estado_validacion)
    /\ AplicaTexto(f.fase) => r.fase = Val(f.fase)

\* lines 807-814: the allow-list of sortable columns
valid_sort_fields ==
    [ k \in {"tiempo_global_cs", "fecha_registro", "nadador", "competencia", "created_at"} |->
        CASE k = "tiempo_global_cs" -> "r.tiempo_global_cs"
          [] k = "fecha_registro" -> "r.fecha_registro"
          [] k = "nadador" -> "n.nombre_completo"
          [] k = "competencia" -> "c.nombre"
          [] k = "created_at" -> "r.created_at" ]

\* line 816: valid_sort_fields.get(sort_by, "r.fecha_registro")
sort_field(sort_by) ==
    IF sort_by \in DOMAIN valid_sort_fields THEN valid_sort_fields[sort_by]
    ELSE "r.fecha_registro"

\* sort_order.lower() for the values of the request universe
lower(texto) == IF texto = "ASC" THEN "asc" ELSE IF texto = "DESC" THEN "desc" ELSE texto

\* line 817
sort_direction(sort_order) == IF lower(sort_order) = "asc" THEN "ASC" ELSE "DESC"

\* line 818: f"{sort_field} {sort_direction}", kept as the pair of its parts
order_clause(f) == <<sort_field(f.sort_by), sort_direction(f.sort_order)>>

\* the rows the main query selects; the page holds them all
ListaFiltrada(tabla_nadador, tabla_resultado, equipo_id, f) ==
    { r \in tabla_resultado :
          FilaConJoins(r) /\ where_clause(tabla_nadador, r, equipo_id, f) }

list_resultados(p, ll) ==
    /\ pc[p] = "idle"
    /\ ll.op = "list_resultados"
    /\ Autenticada(ll)
    /\ LET filas == ListaFiltrada(nadador, resultado, Usuarios[ll.usuario].equipo_id,
                                  ll.filtros)
       IN Responder(p, ll, [status |-> 200, detail |-> "lista",
                            order_by |-> order_clause(ll.filtros),
                            total |-> Cardinality(filas), resultados |-> filas])
    /\ UNCHANGED <<modo, seq_nadador, seq_competencia, nadador, competencia, resultado,
                   segmento, seq_resultado, pc, tx, loc>>

----------------------------------------------------------------------------
(* GET /analitica/comparar : comparar_resultados *)

diff_tiempo(seg1, seg2) == seg2.tiempo_cs - seg1.tiempo_cs

\* seg2.brazadas - seg1.brazadas if seg1.brazadas and seg2.brazadas else 0:
\* 0 is falsy
diff_brazadas(seg1, seg2) ==
    IF seg1.brazadas # 0 /\ seg2.brazadas # 0 THEN seg2.brazadas - seg1.brazadas ELSE 0

\* seg2.flecha_m - seg1.flecha_m if seg1.flecha_m and seg2.flecha_m else 0,
\* in tenths of a metre: Decimal('0.0') is falsy, and round(., 2) keeps a
\* value with one decimal
diff_flecha(seg1, seg2) ==
    IF seg1.flecha_m # 0 /\ seg2.flecha_m # 0 THEN seg2.flecha_m - seg1.flecha_m ELSE 0

\* {s.indice: s for s in segmentos}
segmentos_dict(tabla_segmento, resultado_id) ==
    LET filas == {s \in tabla_segmento : s.resultado_id = resultado_id}
    IN [i \in {s.indice : s \in filas} |-> CHOOSE s \in filas : s.indice = i]

\* the loop over the sorted indices, as a function of the indices that both
\* results have
comparacion_segmentos(tabla_segmento, resultado1_id, resultado2_id) ==
    LET segmentos1_dict == segmentos_dict(tabla_segmento, resultado1_id)
        segmentos2_dict == segmentos_dict(tabla_segmento, resultado2_id)
    IN [ indice \in DOMAIN segmentos1_dict \cap DOMAIN segmentos2_dict |->
          LET seg1 == segmentos1_dict[indice]
              seg2 == segmentos2_dict[indice]
          IN [ indice |-> indice,
               resultado1 |-> [tiempo_cs |-> seg1.tiempo_cs, brazadas |-> seg1.brazadas,
                               flecha_m |-> seg1.flecha_m],
               resultado2 |-> [tiempo_cs |-> seg2.tiempo_cs, brazadas |-> seg2.brazadas,
                               flecha_m |-> seg2.flecha_m],
               diferencias |-> [tiempo_cs |-> diff_tiempo(seg1, seg2),
                                brazadas |-> diff_brazadas(seg1, seg2),
                                flecha_m |-> diff_flecha(seg1, seg2),
                                mejora |-> diff_tiempo(seg1, seg2) < 0] ] ]

\* Resultado JOIN Nadador WHERE Resultado.id = :id AND Nadador.equipo_id = :equipo
ResultadoDelEquipo(tabla_nadador, tabla_resultado, resultado_id, equipo_id) ==
    { r \in tabla_resultado :
        /\ r.id = resultado_id
        /\ r.nadador_id \in DOMAIN tabla_nadador
        /\ tabla_nadador[r.nadador_id].equipo_id = equipo_id }

ComparacionDe(tabla_nadador, tabla_resultado, tabla_segmento, equipo_id, id1, id2) ==
    LET filas1 == ResultadoDelEquipo(tabla_nadador, tabla_resultado, id1, equipo_id)
        filas2 == ResultadoDelEquipo(tabla_nadador, tabla_resultado, id2, equipo_id)
        resultado1 == CHOOSE r \in filas1 : TRUE
        resultado2 == CHOOSE r \in filas2 : TRUE
        comparacion == comparacion_segmentos(tabla_segmento, id1, id2)
        diferencia_global_cs == resultado2.tiempo_global_cs - resultado1.tiempo_global_cs
    IN IF filas1 = {} THEN Error(404, "resultado1_no_encontrado")
       ELSE IF filas2 = {} THEN Error(404, "resultado2_no_encontrado")
       ELSE IF resultado1.nadador_id # resultado2.nadador_id
         THEN Error(400, "distinto_nadador")
       ELSE IF resultado1.prueba_id # resultado2.prueba_id
         THEN Error(400, "distinta_prueba")
       ELSE [ status |-> 200, detail |-> "comparacion",
              resultado1 |-> [id |-> resultado1.id,
                              tiempo_global_cs |-> resultado1.tiempo_global_cs],
              resultado2 |-> [id |-> resultado2.id,
                              tiempo_global_cs |-> resultado2.tiempo_global_cs],
              comparacion_global |->
                  [diferencia_cs |-> diferencia_global_cs,
                   mejora |-> diferencia_global_cs < 0,
                   resultado_mas_reciente |->
                       IF FechaMenor(resultado1.fecha_registro, resultado2.fecha_registro)
                       THEN 2 ELSE 1],
              comparacion_segmentos |-> comparacion,
              resumen |->
                  [total_segmentos_comparados |-> Cardinality(DOMAIN comparacion),
                   segmentos_mejorados |->
                       Cardinality({i \in DOMAIN comparacion : comparacion[i].diferencias.mejora}),
                   segmentos_empeorados |->
                       Cardinality({i \in DOMAIN comparacion :
                                       /\ ~comparacion[i].diferencias.mejora
                                       /\ comparacion[i].diferencias.tiempo_cs # 0})] ]

comparar_resultados(p, ll) ==
    /\ pc[p] = "idle"
    /\ ll.op = "comparar_resultados"
    /\ Autenticada(ll)
    /\ Responder(p, ll, ComparacionDe(nadador, resultado, segmento,
                                      Usuarios[ll.usuario].equipo_id,
                                      ll.resultado1_id, ll.resultado2_id))
    /\ UNCHANGED <<modo, seq_nadador, seq_competencia, nadador, competencia, resultado,
                   segmento, seq_resultado, pc, tx, loc>>

----------------------------------------------------------------------------
(* A request that get_current_user refuses *)

\* the dependency raises HTTPException(401) and the handler is not called
NoAutenticada(p, ll) ==
    /\ pc[p] = "idle"
    /\ "authorization" \in DOMAIN ll
    /\ get_current_user(Usuarios, ll.authorization).status # 200
    /\ Responder(p, ll, get_current_user(Usuarios, ll.authorization))
    /\ UNCHANGED <<modo, seq_nadador, seq_competencia, nadador, competencia, resultado,
                   segmento, seq_resultado, pc, tx, loc>>

----------------------------------------------------------------------------
(* Specifications *)

----------------------------------------------------------------------------
(* The category functions on their own: a swimmer with a birth date from    *)
(* FechasNacimiento and a competition date from FechasCompetencia.          *)

\* the oldest swimmer drawn turns MaxEdad in 2024, the youngest turns 10
MaxEdad == 18
AniosNacimiento == (2024 - MaxEdad)..2014
AniosCompetencia == 2024..2025

FechasNacimiento ==
    { f \in { <<y, md[1], md[2]>> :
                  y \in AniosNacimiento,
                  md \in {<<1, 1>>, <<2, 29>>, <<6, 15>>, <<12, 31>>} } :
          FechaValida(f) }

FechasCompetencia ==
    { f \in { <<y, md[1], md[2]>> :
                  y \in AniosCompetencia,
                  md \in {<<1, 1>>, <<1, 2>>, <<2, 28>>, <<2, 29>>, <<3, 1>>, <<3, 2>>,
                          <<6, 14>>, <<6, 15>>, <<6, 16>>, <<12, 31>>} } :
          FechaValida(f) }

InitCategoria ==
    /\ modo = "cat"
    /\ \E b \in FechasNacimiento :
           nadador = [NadadoresIniciales EXCEPT ![1].fecha_nacimiento = b]
    /\ competencia = CompetenciasIniciales
    /\ resultado = {}
    /\ segmento = {}
    /\ seq_resultado = 1
    /\ seq_nadador = 3
    /\ seq_competencia = 4
    /\ pc = <<"idle">>
    /\ \E r \in FechasCompetencia :
           req = <<[op |-> "categoria", nadador_id |-> 1, fecha_competencia |-> r]>>
    /\ tx = <<SesionVacia>>
    /\ loc = <<SinLocales>>
    /\ resp = <<SinRespuesta>>

\* the category of the swimmer on the competition date and on the day before
\* it, by _calcular_categoria_resultado and by Nadador.calcular_categoria
CalcularCategoria(p) ==
    /\ pc[p] = "idle"
    /\ req[p].op = "categoria"
    /\ LET r == req[p].fecha_competencia
           n == req[p].nadador_id
       IN resp' = [resp EXCEPT ![p] =
            [status |-> 200, detail |-> "categoria",
             categoria |-> _calcular_categoria_resultado(nadador, n, r).categoria,
             categoria_dia_anterior |->
                 _calcular_categoria_resultado(nadador, n, DiaAnterior(r)).categoria,
             categoria_nadador |-> Nadador_calcular_categoria(nadador[n], r)]]
    /\ pc' = [pc EXCEPT ![p] = "hecho"]
    /\ UNCHANGED <<modo, seq_nadador, seq_competencia, nadador, competencia, resultado, segmento, seq_resultado,
                   req, tx, loc>>

\* NadadorSearchFilters.validate_categoria
CategoriasDeFiltro == {"11-12", "13-14", "15-16", "17+"}

\* calcular_rango_fechas_categoria: <<fecha_minima, fecha_maxima>> of the
\* birth dates, from the year of the reference date alone
calcular_rango_fechas_categoria(categoria, fecha_referencia) ==
    LET anio_referencia == fecha_referencia[1]
    IN CASE categoria = "11-12" ->
              <<Some(<<anio_referencia - 12, 1, 1>>), Some(<<anio_referencia - 11, 12, 31>>)>>
         [] categoria = "13-14" ->
              <<Some(<<anio_referencia - 14, 1, 1>>), Some(<<anio_referencia - 13, 12, 31>>)>>
         [] categoria = "15-16" ->
              <<Some(<<anio_referencia - 16, 1, 1>>), Some(<<anio_referencia - 15, 12, 31>>)>>
         [] categoria = "17+" ->
              <<None, Some(<<anio_referencia - 17, 12, 31>>)>>
         [] OTHER -> <<None, None>>

\* aplicar_filtro_categoria_optimizado over the ids of a query
aplicar_filtro_categoria_optimizado(tabla_nadador, query, categoria, fecha_referencia) ==
    LET rango == calcular_rango_fechas_categoria(categoria, fecha_referencia)
        fecha_min == rango[1]
        fecha_max == rango[2]
    IN { n \in query :
           /\ IsNone(fecha_min) \/ ~FechaMenor(tabla_nadador[n].fecha_nacimiento, Val(fecha_min))
           /\ IsNone(fecha_max) \/ ~FechaMenor(Val(fecha_max), tabla_nadador[n].fecha_nacimiento) }

\* _build_nadador_query with the categoria filter (no rama, no search)
_build_nadador_query(tabla_nadador, equipo_id, categoria, hoy) ==
    LET query == {n \in DOMAIN tabla_nadador : tabla_nadador[n].equipo_id = equipo_id}
    IN IF IsNone(categoria) THEN query
       ELSE aplicar_filtro_categoria_optimizado(tabla_nadador, query, Val(categoria), hoy)

\* Nadador.categoria_actual when date.today() is hoy
categoria_actual(self, hoy) == Nadador_calcular_categoria(self, hoy)

\* GET /nadadores?categoria=c by the entrenador of team 1; the clock of the
\* run, date.today(), is the date drawn by InitCategoria
list_nadadores(p, categoria) ==
    /\ pc[p] = "idle"
    /\ req[p].op = "categoria"
    /\ LET hoy == req[p].fecha_competencia
           query == _build_nadador_query(nadador, Usuarios[1].equipo_id, Some(categoria), hoy)
       IN resp' = [resp EXCEPT ![p] =
            [status |-> 200, detail |-> "nadadores", categoria |-> categoria,
             items |-> { [id |-> n, categoria_actual |-> categoria_actual(nadador[n], hoy)] :
                           n \in query },
             total |-> Cardinality(query)]]
    /\ pc' = [pc EXCEPT ![p] = "listado"]
    /\ UNCHANGED <<modo, seq_nadador, seq_competencia, nadador, competencia, resultado, segmento, seq_resultado,
                   req, tx, loc>>

\* CompetenciaResponse.es_proxima: fecha_inicio >= date.today()
es_proxima(fila, hoy) == ~FechaMenor(fila.fecha_inicio, hoy)

\* CompetenciaResponse.es_activa: fecha_inicio <= hoy <= fecha_fin
es_activa(fila, hoy) == ~FechaMenor(hoy, fila.fecha_inicio) /\ ~FechaMenor(fila.fecha_fin, hoy)

\* CompetenciaResponse.estado
CompetenciaResponse_estado(fila, hoy) ==
    IF FechaMenor(hoy, fila.fecha_inicio) THEN "proxima"
    ELSE IF ~FechaMenor(hoy, fila.fecha_inicio) /\ ~FechaMenor(fila.fecha_fin, hoy)
        THEN "en_curso"
    ELSE "finalizada"

\* Competencia.is_activa(): get_fecha_inicio() <= hoy <= get_fecha_fin()
is_activa(fila, hoy) == ~FechaMenor(hoy, fila.fecha_inicio) /\ ~FechaMenor(fila.fecha_fin, hoy)

\* the estado of a CompetenciaSelector in typeahead_competencias
estado_selector(fila, hoy) ==
    IF ~FechaMenor(fila.fecha_inicio, hoy) THEN "proxima"
    ELSE IF is_activa(fila, hoy) THEN "en_curso"
    ELSE "finalizada"

\* columna ILIKE '%q%': q matches at some position of the column, whatever
\* the case
ilike_contiene(columna, q) ==
    \E k \in 0..(Len(columna) - Len(q)) :
        \A i \in 1..Len(q) : Minuscula(columna[k + i]) = Minuscula(q[i])

\* the search terms of the typeahead: part of one name, part of both names
\* of team 1
TerminosTypeahead == { <<"c", "o">>, <<"o", "p">> }

\* GET /competencias/search/typeahead?q=... by the entrenador of team 1: the
\* rows of the answer; date.today() is the date drawn by InitCategoria
typeahead_competencias(p, q) ==
    /\ pc[p] = "idle"
    /\ req[p].op = "categoria"
    /\ LET hoy == req[p].fecha_competencia
           competencias == { c \in DOMAIN competencia :
                               /\ competencia[c].equipo_id = Usuarios[1].equipo_id
                               /\ ilike_contiene(competencia[c].nombre, q) }
       IN resp' = [resp EXCEPT ![p] =
            [status |-> 200, detail |-> "typeahead",
             items |-> { [id |-> c, nombre |-> competencia[c].nombre,
                          curso |-> competencia[c].curso,
                          fecha_inicio |-> competencia[c].fecha_inicio,
                          fecha_fin |-> competencia[c].fecha_fin,
                          estado |-> estado_selector(competencia[c], hoy)] :
                           c \in competencias }]]
    /\ pc' = [pc EXCEPT ![p] = "typeahead"]
    /\ UNCHANGED <<modo, seq_nadador, seq_competencia, nadador, competencia, resultado, segmento, seq_resultado,
                   req, tx, loc>>

\* GET /competencias/{competencia_id} by the entrenador of team 1
obtener_competencia(p, competencia_id) ==
    /\ pc[p] = "idle"
    /\ req[p].op = "categoria"
    /\ LET hoy == req[p].fecha_competencia
           encontrada == /\ competencia_id \in DOMAIN competencia
                         /\ competencia[competencia_id].equipo_id = Usuarios[1].equipo_id
           fila == competencia[competencia_id]
       IN resp' = [resp EXCEPT ![p] =
            IF ~encontrada THEN Error(404, "competencia_no_encontrada")
            ELSE [status |-> 200, detail |-> "competencia", id |-> competencia_id,
                  nombre |-> fila.nombre, curso |-> fila.curso,
                  fecha_inicio |-> fila.fecha_inicio, fecha_fin |-> fila.fecha_fin,
                  es_proxima |-> es_proxima(fila, hoy),
                  es_activa |-> es_activa(fila, hoy),
                  estado |-> CompetenciaResponse_estado(fila, hoy)]]
    /\ pc' = [pc EXCEPT ![p] = "competencia"]
    /\ UNCHANGED <<modo, seq_nadador, seq_competencia, nadador, competencia, resultado, segmento, seq_resultado,
                   req, tx, loc>>

NextCategoria ==
    \/ \E p \in Procs : CalcularCategoria(p)
    \/ \E p \in Procs : \E c \in CategoriasDeFiltro : list_nadadores(p, c)
    \/ \E p \in Procs : \E q \in TerminosTypeahead : typeahead_competencias(p, q)
    \/ \E p \in Procs : \E c \in 1..MaxCompetencias : obtener_competencia(p, c)

\* the category functions applied to every pair of dates
SpecCategoria == InitCategoria /\ [][NextCategoria]_vars

Next ==
    \/ \E p \in Procs : \E ll \in LlamadasCreate : CreateResultado(p, ll)
    \/ \E p \in Procs : InsertarResultado(p)
    \/ \E p \in Procs : InsertarSegmento(p)
    \/ \E p \in Procs : Commit(p)
    \/ \E p \in Procs : ErrorAlmacenamiento(p)
    \/ \E p \in Procs : \E ll \in LlamadasOtras : delete_nadador(p, ll)
    \/ \E p \in Procs : \E ll \in LlamadasOtras : create_nadador(p, ll)
    \/ \E p \in Procs : \E ll \in LlamadasOtras : update_nadador(p, ll)
    \/ \E p \in Procs : \E ll \in LlamadasOtras : crear_competencia(p, ll)
    \/ \E p \in Procs : \E ll \in LlamadasOtras : actualizar_competencia(p, ll)
    \/ \E p \in Procs : \E ll \in LlamadasOtras : get_resultado_detalle(p, ll)
    \/ \E p \in Procs : \E ll \in LlamadasOtras : list_resultados(p, ll)
    \/ \E p \in Procs : \E ll \in LlamadasOtras : comparar_resultados(p, ll)
    \/ \E p \in Procs : \E ll \in LlamadasCreate \cup LlamadasOtras : NoAutenticada(p, ll)
    \/ \E p \in Procs : \E u \in DOMAIN Usuarios, id \in 1..MaxResultados :
           ToggleEstadoRevision(p, u, id)

\* one request at a time, the whole request universe
Spec == Init /\ [][Next]_vars

\* two requests in flight, the small request universe
SpecConc == InitConc /\ [][Next]_vars

\* one request at a time, the administration universe
SpecAdmin == InitAdmin /\ [][Next]_vars

\* one request at a time, the authentication universe
SpecAuth == InitAuth /\ [][Next]_vars

\* one request at a time, the comparison universe
SpecComp == InitComp /\ [][Next]_vars

\* one request at a time, the list universe
SpecLista == InitLista /\ [][Next]_vars

\* one request at a time, the competition universe
SpecCompet == InitCompet /\ [][Next]_vars
----------------------------------------------------------------------------
(* Vocabulary of the properties *)

\* number of segments of a prueba, from the catalogue row
SegmentosDePrueba(q) ==
    IF Prueba[q].curso = "SC" THEN Prueba[q].distancia \div 25
    ELSE Prueba[q].distancia \div 50

SegmentosDe(r) == {s \in segmento : s.resultado_id = r.id}

\* request slot p holds a create request that passed validation: it is
\* inside its transaction or it has been answered 201
Aceptada(p) ==
    /\ req[p].op = "create"
    /\ (pc[p] # "idle" \/ resp[p].status = 201)

\* request slot p holds a create request that was answered with a client error
Rechazada(p) ==
    /\ req[p].op = "create"
    /\ pc[p] = "idle"
    /\ resp[p].status \in 400..499

\* this step is the rejection of a create request of slot p with a
\* validation, permission, not-found or conflict error
PasoRechazo(p) ==
    /\ pc[p] = "idle"
    /\ pc'[p] = "idle"
    /\ <<req[p], resp[p]>> # <<req'[p], resp'[p]>>
    /\ req'[p].op = "create"
    /\ resp'[p].status \in {400, 403, 404, 409, 422}

EsErrorInterno(r) == r.status = 500 /\ r.detail = "Error interno creando resultado"

----------------------------------------------------------------------------
(* C1 *)

\* C1: in every committed state each resultado row has all N segmento rows of
\* its prueba and every segmento row has its parent resultado row, whatever
\* requests failed with a storage error after flushing rows.
C1_Atomicidad ==
    /\ \A r \in resultado :
          /\ Cardinality(SegmentosDe(r)) = SegmentosDePrueba(r.prueba_id)
          /\ {s.indice : s \in SegmentosDe(r)} = 1..SegmentosDePrueba(r.prueba_id)
    /\ \A s \in segmento : \E r \in resultado : r.id = s.resultado_id

\* C1 witness: every request has ended, the only committed resultado has id 2
\* and one request ended with the internal error: the resultado row with id 1
\* was flushed and its transaction was then rolled back.
C1_Witness ==
    /\ \A p \in Procs : pc[p] = "idle"
    /\ resultado # {}
    /\ \A r \in resultado : r.id = 2
    /\ \E p \in Procs : EsErrorInterno(resp[p]) /\ resp[p].excepcion = "OperationalError"

----------------------------------------------------------------------------
(* C2 *)

\* a segment is malformed for place j of prueba q when its distance is not
\* the segment length of the course, its streamline exceeds its distance, or
\* (medley) its style is not the style of place j in the rotation
SegmentoMalformado(q, j, seg) ==
    \/ seg.distancia_m # LSeg[q]
    \/ seg.flecha_m > seg.distancia_m * 10
    \/ (q = 1 /\ seg.estilo_segmento # CicloIM[((j - 1) % 4) + 1])

\* the submissions that are Base(q) but for one malformed segment
UnSegmentoMalformado ==
    UNION { UNION { { [Base(q) EXCEPT !.segmentos[j] = seg] :
                        seg \in { x \in { [SegBase(q, j) EXCEPT !.distancia_m = d,
                                                                !.flecha_m = f,
                                                                !.estilo_segmento = e] :
                                              d \in {25, 50},
                                              f \in {50, 250, 251, 500, 501},
                                              e \in {"Mariposa", "Dorso", "Pecho", "Libre"} } :
                                    SegmentoMalformado(q, j, x) } } :
                    j \in 1..NSeg[q] } : q \in DOMAIN Prueba }

\* C2: a step that rejects a create request with a validation, permission,
\* not-found or conflict error leaves resultado and segmento as they were,
\* with no INSERT issued in the request's session and no id drawn; and a
\* submission that is valid except for one malformed segment is always
\* answered with such a rejection.
C2_RechazoSinEscritura ==
    [][ \A p \in Procs :
          /\ PasoRechazo(p) =>
                /\ resultado' = resultado
                /\ segmento' = segmento
                /\ seq_resultado' = seq_resultado
                /\ tx[p] = SesionVacia
                /\ tx'[p] = SesionVacia
          /\ (req'[p].op = "create" /\ req'[p].usuario = 1
                 /\ req'[p].data \in UnSegmentoMalformado) =>
                /\ pc'[p] = "idle"
                /\ resp'[p].status \in {400, 422}
      ]_vars

\* C2 witness: a submission with one segment whose streamline exceeds its
\* distance has been rejected and both tables are empty.
C2_Witness ==
    /\ resultado = {}
    /\ segmento = {}
    /\ \E p \in Procs :
          /\ Rechazada(p)
          /\ req[p].data \in UnSegmentoMalformado
          /\ resp[p] = Error(400, "segmento_flecha")

----------------------------------------------------------------------------
(* C3 *)

\* the five columns of the uniqueness tuple agree
MismaTupla(a, b) ==
    /\ a.nadador_id = b.nadador_id
    /\ a.competencia_id = b.competencia_id
    /\ a.prueba_id = b.prueba_id
    /\ a.fase = b.fase
    /\ a.fecha_registro = b.fecha_registro

\* submissions of the entrenador of team 1 that violate no rule of the
\* validation other than, possibly, uniqueness: Base(q) with any phase, date
\* and global time
SubmisionesValidas ==
    { [Base(q) EXCEPT !.fase = f, !.fecha_registro = d, !.tiempo_global_cs = @ + dt] :
          q \in DOMAIN Prueba, f \in {"Preliminar", "Final"}, d \in {Fecha1, Fecha2},
          dt \in {-41, -40, 0, 40, 41} }

\* this step is slot p taking up a create request
PasoCreate(p) ==
    /\ pc[p] = "idle"
    /\ req'[p].op = "create"
    /\ <<pc[p], req[p], resp[p]>> # <<pc'[p], req'[p], resp'[p]>>

\* C3: a create request of an otherwise valid submission whose tuple
\* (nadador_id, competencia_id, prueba_id, fase, fecha_registro) is that of a
\* stored resultado is answered 409 and leaves resultado and segmento
\* unchanged; and no two stored resultados have the same tuple.
C3_DuplicadoConflicto ==
    [][ /\ \A p \in Procs :
              ( /\ PasoCreate(p)
                /\ req'[p].usuario = 1
                /\ req'[p].data \in SubmisionesValidas
                /\ \E r \in resultado : MismaTupla(r, req'[p].data) )
              => /\ pc'[p] = "idle"
                 /\ resp'[p].status = 409
                 /\ resultado' = resultado
                 /\ segmento' = segmento
        /\ \A r1 \in resultado', r2 \in resultado' : MismaTupla(r1, r2) => r1 = r2
      ]_vars

\* C3 witness: a submission with the tuple of a stored resultado and another
\* global time has been answered 409, and the stored row has its own time.
C3_Witness ==
    \E p \in Procs : \E r \in resultado :
        /\ Rechazada(p)
        /\ resp[p].status = 409
        /\ req[p].data \in SubmisionesValidas
        /\ MismaTupla(r, req[p].data)
        /\ r.tiempo_global_cs # req[p].data.tiempo_global_cs
        /\ Cardinality(resultado) = 2

----------------------------------------------------------------------------
(* C4 *)

\* slot p holds a create request that the uniqueness constraint rejected
RechazadaPorRestriccion(p) ==
    /\ req[p].op = "create"
    /\ pc[p] = "idle"
    /\ "excepcion" \in DOMAIN resp[p]
    /\ resp[p].excepcion = "IntegrityError"

\* C4: of two concurrent create requests for one tuple that both passed the
\* uniqueness query, the one rejected by the uniqueness constraint is answered
\* 409 (conflict), never an internal error, and only one row of the tuple is
\* committed.
C4_ConflictoConcurrente ==
    /\ \A p \in Procs : RechazadaPorRestriccion(p) => resp[p].status = 409
    /\ \A r1 \in resultado, r2 \in resultado : MismaTupla(r1, r2) => r1 = r2

----------------------------------------------------------------------------
(* C5 *)

\* sum of tiempo_cs over the first n segments of a submitted list
RECURSIVE SumaTiempos(_, _)
SumaTiempos(segs, n) ==
    IF n = 0 THEN 0 ELSE segs[n].tiempo_cs + SumaTiempos(segs, n - 1)

DesviacionDe(data) ==
    SumaTiempos(data.segmentos, Len(data.segmentos)) - data.tiempo_global_cs

\* C5: for every accepted resultado the 201 response carries
\* suma_parciales_cs = sum of the submitted tiempo_cs,
\* desviacion_cs = suma_parciales_cs - tiempo_global_cs,
\* desviacion_absoluta_cs = |desviacion_cs|, and the stored
\* desviacion_parciales_cs equals desviacion_cs.
C5_SumaYDesviacion ==
    \A p \in Procs :
        (req[p].op = "create" /\ resp[p].status = 201) =>
            LET data == req[p].data
                rg == resp[p].resumen_global
            IN /\ rg.suma_parciales_cs = SumaTiempos(data.segmentos, Len(data.segmentos))
               /\ rg.desviacion_cs = rg.suma_parciales_cs - data.tiempo_global_cs
               /\ rg.desviacion_absoluta_cs =
                      (IF rg.desviacion_cs < 0 THEN 0 - rg.desviacion_cs ELSE rg.desviacion_cs)
               /\ resp[p].resultado.desviacion_parciales_cs = rg.desviacion_cs
               /\ \E r \in resultado :
                      /\ r.id = resp[p].resultado.id
                      /\ r.desviacion_parciales_cs = rg.desviacion_cs

\* C5 witness: an accepted resultado whose two segment times differ and whose
\* deviation is negative.
C5_Witness ==
    \E p \in Procs :
        /\ req[p].op = "create"
        /\ resp[p].status = 201
        /\ Len(req[p].data.segmentos) = 2
        /\ req[p].data.segmentos[1].tiempo_cs # req[p].data.segmentos[2].tiempo_cs
        /\ resp[p].resumen_global.desviacion_cs = -41

----------------------------------------------------------------------------
(* C6 *)

\* C6: for every accepted resultado requiere_revision is true iff
\* |desviacion_cs| > 40, and the estado_validacion stored at creation is
\* 'revisar' when it is true and 'valido' otherwise; |deviation| = 40 gives
\* 'valido' and |deviation| = 41 gives 'revisar'.
C6_Tolerancia ==
    \A p \in Procs :
        (req[p].op = "create" /\ resp[p].status = 201) =>
            LET dev == DesviacionDe(req[p].data)
                rg == resp[p].resumen_global
                estado == resp[p].resultado.estado_validacion
            IN /\ rg.requiere_revision <=> (dev > 40 \/ dev < -40)
               /\ estado = (IF rg.requiere_revision THEN "revisar" ELSE "valido")
               /\ (dev \in {40, -40}) => estado = "valido"
               /\ (dev \in {41, -41}) => estado = "revisar"

\* C6 witness: an accepted resultado with a deviation of exactly 40, stored
\* as 'valido'.
C6_Witness ==
    \E p \in Procs :
        /\ req[p].op = "create"
        /\ resp[p].status = 201
        /\ DesviacionDe(req[p].data) = 40
        /\ \E r \in resultado : r.id = resp[p].resultado.id /\ r.estado_validacion = "valido"

----------------------------------------------------------------------------
(* C7 *)

----------------------------------------------------------------------------
(* C8 *)

IndicesDe(segs) == {segs[j].indice : j \in 1..Len(segs)}

\* the list has N entries whose indices are exactly 1..N, for N the number
\* of segments of the prueba
SegmentacionCorrecta(data) ==
    /\ Len(data.segmentos) = SegmentosDePrueba(data.prueba_id)
    /\ IndicesDe(data.segmentos) = 1..SegmentosDePrueba(data.prueba_id)

\* C8: every accepted resultado has exactly N segments, N = distancia/25 for
\* an SC prueba and distancia/50 for an LC prueba, with stored indices exactly
\* 1..N; a submission for a known prueba with another number of segments or
\* with a missing or repeated index is rejected.
C8_Segmentacion ==
    /\ \A p \in Procs : Aceptada(p) => SegmentacionCorrecta(req[p].data)
    /\ \A p \in Procs :
          ( /\ req[p].op = "create"
            /\ req[p].data.prueba_id \in DOMAIN Prueba
            /\ ~SegmentacionCorrecta(req[p].data) ) => Rechazada(p)
    /\ \A r \in resultado :
          /\ Cardinality(SegmentosDe(r)) = SegmentosDePrueba(r.prueba_id)
          /\ {s.indice : s \in SegmentosDe(r)} = 1..SegmentosDePrueba(r.prueba_id)

\* C8 witness: a submission for the 100 m LC prueba with three segments
\* (N + 1) has been rejected for its number of segments.
C8_Witness ==
    \E p \in Procs :
        /\ Rechazada(p)
        /\ req[p].data.prueba_id = 3
        /\ Len(req[p].data.segmentos) = SegmentosDePrueba(3) + 1
        /\ resp[p] = Error(400, "numero_segmentos")

----------------------------------------------------------------------------
(* C9 *)

\* C9: in every stored resultado of a Combinado prueba the segment with
\* indice k has the style at place (k-1) mod 4 of Mariposa, Dorso, Pecho,
\* Libre, whatever the order in which the request listed its segments.
C9_RotacionPorIndice ==
    \A r \in resultado :
        Prueba[r.prueba_id].estilo = "Combinado" =>
            \A s \in SegmentosDe(r) :
                s.estilo_segmento = CicloIM[((s.indice - 1) % 4) + 1]

----------------------------------------------------------------------------
(* C10 *)

\* C10: every stored resultado with a non-null tiempo_15m_cs refers to a
\* prueba of exactly 50 m, and a submission carrying a tiempo_15m_cs for a
\* prueba of another distance is rejected.
C10_Tiempo15m ==
    /\ \A r \in resultado :
          r.tiempo_15m_cs # <<>> => Prueba[r.prueba_id].distancia = 50
    /\ \A p \in Procs :
          ( /\ req[p].op = "create"
            /\ req[p].data.prueba_id \in DOMAIN Prueba
            /\ req[p].data.tiempo_15m_cs # <<>>
            /\ Prueba[req[p].data.prueba_id].distancia # 50 ) => Rechazada(p)

\* C10 witness: a submission with a 15 m time for the 100 m LC prueba has been
\* rejected with the 15 m error.
C10_Witness ==
    \E p \in Procs :
        /\ Rechazada(p)
        /\ req[p].data.prueba_id = 3
        /\ req[p].data.tiempo_15m_cs = <<700>>
        /\ resp[p] = Error(400, "tiempo_15m")
----------------------------------------------------------------------------
(* C11 *)

\* the step of the validation pipeline that an error detail belongs to
PasoDe(detail) ==
    CASE detail \in {"nadador_no_encontrado", "nadador_otro_equipo"} -> 1
      [] detail \in {"competencia_no_encontrada", "competencia_otro_equipo",
                     "prueba_no_encontrada", "curso_no_coincide"} -> 2
      [] detail = "numero_segmentos" -> 3
      [] detail \in {"segmento_distancia", "segmento_flecha"} -> 4
      [] detail = "segmento_estilo_im" -> 5
      [] detail = "tiempo_15m" -> 6
      [] detail = "duplicado" -> 7
      [] OTHER -> 0

\* the steps a submission violates, each judged on its own (steps 3 to 6 are
\* judged only when the prueba and the competition could be looked up)
PasosViolados(data, equipo_id) ==
    LET conocida == /\ data.prueba_id \in DOMAIN Prueba
                    /\ data.competencia_id \in DOMAIN competencia
        q == Prueba[data.prueba_id]
        n == Len(data.segmentos)
    IN  { k \in {1} : \/ data.nadador_id \notin DOMAIN nadador
                      \/ nadador[data.nadador_id].equipo_id # equipo_id }
        \cup
        { k \in {2} : \/ ~conocida
                      \/ competencia[data.competencia_id].equipo_id # equipo_id
                      \/ competencia[data.competencia_id].curso # q.curso }
        \cup
        { k \in {3} : conocida /\ n # SegmentosDePrueba(data.prueba_id) }
        \cup
        { k \in {4} : /\ conocida
                      /\ \E j \in 1..n :
                            \/ data.segmentos[j].distancia_m # longitud_segmento(q.curso)
                            \/ data.segmentos[j].flecha_m > data.segmentos[j].distancia_m * 10 }
        \cup
        { k \in {5} : /\ conocida
                      /\ q.estilo = "Combinado"
                      /\ \E j \in 1..n :
                            data.segmentos[j].estilo_segmento # CicloIM[((j - 1) % 4) + 1] }
        \cup
        { k \in {6} : conocida /\ data.tiempo_15m_cs # None /\ q.distancia # 50 }
        \cup
        { k \in {7} : \E r \in resultado : MismaTupla(r, data) }

PrimerPasoViolado(data, equipo_id) ==
    CHOOSE k \in PasosViolados(data, equipo_id) :
        \A m \in PasosViolados(data, equipo_id) : k <= m

\* request slot p holds a create request that the validation pipeline rejected
RechazadaPorValidacion(p) ==
    /\ Rechazada(p)
    /\ PasoDe(resp[p].detail) # 0

\* C11: a create request rejected by the validation pipeline is answered with
\* the error of the lowest-numbered step it violates, in the order (1) swimmer,
\* (2) competition and course, (3) segment count, (4) segment distance and
\* streamline, (5) medley rotation, (6) 15 m time, (7) uniqueness.
C11_ErrorDelPrimerPaso ==
    \A p \in Procs :
        RechazadaPorValidacion(p) =>
            LET equipo_id == Usuarios[req[p].usuario].equipo_id
            IN /\ PasosViolados(req[p].data, equipo_id) # {}
               /\ PasoDe(resp[p].detail) = PrimerPasoViolado(req[p].data, equipo_id)
----------------------------------------------------------------------------
(* C12 *)

\* request slot p holds a create request that ended because the handler
\* raised the not-found HTTPException for the swimmer
NadadorNoEncontradoAlCrear(p) ==
    /\ req[p].op = "create"
    /\ pc[p] = "idle"
    /\ \/ resp[p].detail = "nadador_no_encontrado"
       \/ /\ "excepcion" \in DOMAIN resp[p]
          /\ resp[p].excepcion = "HTTPException_404"

\* C12: a create request that finds no swimmer row, at validation or when the
\* category is computed after a concurrent delete_nadador, is answered with
\* not-found (404) and never with an internal error (500).
C12_NoEncontradoNoEsInterno ==
    \A p \in Procs :
        NadadorNoEncontradoAlCrear(p) => resp[p].status = 404
----------------------------------------------------------------------------
(* C13 *)

\* the age on date r of a swimmer born on b
EdadEnFecha(b, r) ==
    r[1] - b[1] - (IF r[2] < b[2] \/ (r[2] = b[2] /\ r[3] < b[3]) THEN 1 ELSE 0)

BandaDeEdad(edad) ==
    CASE edad <= 12 -> "11-12"
      [] edad \in 13..14 -> "13-14"
      [] edad \in 15..16 -> "15-16"
      [] edad >= 17 -> "17+"

\* r is the day on which a swimmer born on b completes a year of age: the
\* anniversary of b, or 1 March of a common year for a swimmer born on
\* 29 February
EsCumpleanios(b, r) ==
    \/ (r[2] = b[2] /\ r[3] = b[3])
    \/ (b[2] = 2 /\ b[3] = 29 /\ ~EsBisiesto(r[1]) /\ r[2] = 3 /\ r[3] = 1)

CategoriaCalculada(p) == pc[p] = "hecho" /\ req[p].op = "categoria"

\* C13: calcular_categoria_en_fecha(b, r) is the band of the age
\* r.year - b.year - (1 if (r.month, r.day) < (b.month, b.day) else 0), with
\* bands <= 12, 13..14, 15..16, >= 17; the label differs from the label of the
\* day before exactly on the birthday that brings the age to 13, 15 or 17; and
\* Nadador.calcular_categoria gives the same label.
C13_CategoriaPorBandas ==
    \A p \in Procs :
        CategoriaCalculada(p) =>
            LET b == nadador[req[p].nadador_id].fecha_nacimiento
                r == req[p].fecha_competencia
            IN /\ resp[p].categoria = BandaDeEdad(EdadEnFecha(b, r))
               /\ resp[p].categoria_nadador = resp[p].categoria
               /\ (resp[p].categoria # resp[p].categoria_dia_anterior)
                      <=> (EsCumpleanios(b, r) /\ EdadEnFecha(b, r) \in {13, 15, 17})

\* a label that changed on the fifteenth birthday has been computed
C13_Witness ==
    /\ \E p \in Procs :
        /\ CategoriaCalculada(p)
        /\ resp[p].categoria = "15-16"
        /\ resp[p].categoria_dia_anterior = "13-14"
        /\ nadador[req[p].nadador_id].fecha_nacimiento[3] = 15
----------------------------------------------------------------------------
(* C14 *)

\* the committed resultado rows of swimmers born on 2010-06-15 whose
\* category was evaluated against date f
FilasDeNacido20100615(f) ==
    { r \in resultado : /\ r.nadador_id \in DOMAIN nadador
                        /\ nadador[r.nadador_id].fecha_nacimiento = <<2010, 6, 15>>
                        /\ r.fecha_registro = f }

\* C14 (as stated): for a swimmer born 2010-06-15 the categoria_label
\* evaluated against 2024-06-14 is '13-14' and against 2024-06-15 is '15-16'.
C14_Frontera_15_16 ==
    /\ \A r \in FilasDeNacido20100615(<<2024, 6, 14>>) : r.categoria_label = "13-14"
    /\ \A r \in FilasDeNacido20100615(<<2024, 6, 15>>) : r.categoria_label = "15-16"

\* C14 (amended): for a swimmer born 2010-06-15 the categoria_label evaluated
\* against 2024-06-14 (age 13) is '13-14' and evaluated against 2024-06-15
\* (age 14, the fourteenth birthday) it is still '13-14'.
C14_Frontera_13_14 ==
    /\ \A r \in FilasDeNacido20100615(<<2024, 6, 14>>) : r.categoria_label = "13-14"
    /\ \A r \in FilasDeNacido20100615(<<2024, 6, 15>>) : r.categoria_label = "13-14"

\* a resultado of that swimmer dated on the birthday has been committed
C14_Witness ==
    FilasDeNacido20100615(<<2024, 6, 15>>) # {}
----------------------------------------------------------------------------
(* C15 *)

RECURSIVE SumaBrazadas(_, _)
SumaBrazadas(segs, n) ==
    IF n = 0 THEN 0 ELSE segs[n].brazadas + SumaBrazadas(segs, n - 1)

\* sum of max(distancia_m - flecha_m, 0), in tenths of a metre
RECURSIVE SumaSinFlecha(_, _)
SumaSinFlecha(segs, n) ==
    IF n = 0 THEN 0
    ELSE (IF segs[n].distancia_m * 10 > segs[n].flecha_m
          THEN segs[n].distancia_m * 10 - segs[n].flecha_m ELSE 0)
         + SumaSinFlecha(segs, n - 1)

\* C15: for every accepted resultado brazadas_totales is the sum of the
\* segments' brazadas, distancia_sin_flecha_total_m is the sum of
\* max(distancia_m - flecha_m, 0), distancia_por_brazada_global_m is null
\* exactly when brazadas_totales = 0 and otherwise is the quotient
\* distancia_sin_flecha_total_m / brazadas_totales; no accepted request ends
\* with a division by zero.
C15_MetricasDeBrazada ==
    \A p \in Procs :
        /\ (req[p].op = "create" /\ resp[p].status = 201) =>
            LET segs == resp[p].segmentos
                rg == resp[p].resumen_global
            IN /\ rg.brazadas_totales = SumaBrazadas(segs, Len(segs))
               /\ rg.distancia_sin_flecha_total_m = SumaSinFlecha(segs, Len(segs))
               /\ (rg.distancia_por_brazada_global_m = None) <=> (rg.brazadas_totales = 0)
               /\ rg.brazadas_totales # 0 =>
                      rg.distancia_por_brazada_global_m =
                          Some(<<rg.distancia_sin_flecha_total_m, rg.brazadas_totales>>)
               /\ rg.velocidad_promedio_mps[2] # 0
        /\ (req[p].op = "create" /\ "excepcion" \in DOMAIN resp[p]) =>
               resp[p].excepcion # "DivisionByZero"

\* an accepted resultado without strokes: brazadas_totales = 0 and the
\* distance per stroke is null
C15_Witness ==
    \E p \in Procs :
        /\ req[p].op = "create"
        /\ resp[p].status = 201
        /\ resp[p].resumen_global.brazadas_totales = 0
        /\ resp[p].resumen_global.distancia_sin_flecha_total_m > 0
        /\ resp[p].resumen_global.distancia_por_brazada_global_m = None
----------------------------------------------------------------------------
(* C16 *)

OperacionesPrivilegiadas ==
    {"create", "create_nadador", "update_nadador", "delete_nadador",
     "crear_competencia", "actualizar_competencia"}

\* the step takes a privileged request of a user who is not an entrenador into
\* request slot p
LlegaSinRolEntrenador(p) ==
    /\ pc[p] = "idle"
    /\ <<req'[p], resp'[p]>> # <<req[p], resp[p]>>
    /\ req'[p].op \in OperacionesPrivilegiadas
    /\ Usuarios[req'[p].usuario].rol # "entrenador"

\* C16: a create_nadador, update_nadador, delete_nadador, crear_competencia,
\* actualizar_competencia or create_resultado request of a user whose rol is
\* not 'entrenador' (atleta, or a role the system does not know) is answered
\* 403 in the step that receives it, with no handler step left to run and
\* every table, sequence and session as it was; and a permission key that is
\* not in the permission dictionary is denied to every user.
C16_SoloEntrenadorEscribe ==
    [][ /\ \A p \in Procs :
            LlegaSinRolEntrenador(p) =>
                /\ resp'[p].status = 403
                /\ pc'[p] = "idle"
                /\ UNCHANGED <<nadador, competencia, resultado, segmento,
                               seq_nadador, seq_competencia, seq_resultado, tx>>
        /\ \A u \in DOMAIN Usuarios :
            ~validate_permission(Usuarios[u], "exportar_resultados") ]_vars

\* the user with the unknown role has been refused the deletion of a swimmer
\* who is still stored, after the entrenador had created a competencia
C16_Witness ==
    \E p \in Procs :
        /\ req[p].op = "delete_nadador"
        /\ Usuarios[req[p].usuario].rol = "juez"
        /\ resp[p].status = 403
        /\ req[p].nadador_id \in DOMAIN nadador
        /\ seq_competencia > 4
----------------------------------------------------------------------------
(* C17 *)

\* the resultado rows of the swimmers of one team, and their segmento rows
ResultadosDeEquipo(equipo_id) ==
    {r \in resultado : /\ r.nadador_id \in DOMAIN nadador
                       /\ nadador[r.nadador_id].equipo_id = equipo_id}

SegmentosDeEquipo(equipo_id) ==
    {s \in segmento : \E r \in ResultadosDeEquipo(equipo_id) : s.resultado_id = r.id}

\* the handler of operation op answers a request in request slot p: the
\* request reached it as a user of the usuario table
Atiende(p, op) ==
    /\ pc[p] = "idle"
    /\ <<req'[p], resp'[p]>> # <<req[p], resp[p]>>
    /\ req'[p].op = op
    /\ req'[p].usuario \in DOMAIN Usuarios

\* C17: what a caller reads of the resultados does not depend on the rows of
\* other teams: the detail and the list answered to a caller are the ones
\* the same request gets when the tables hold the rows of the caller's team
\* only (so a resultado of another team is answered as absent), and the
\* revisar request of a caller leaves every resultado of another team as it is.
C17_AislamientoPorEquipo ==
    [][ \A p \in Procs :
          LET equipo_id == Usuarios[req'[p].usuario].equipo_id
          IN /\ Atiende(p, "get_resultado_detalle") =>
                    resp'[p] = DetalleDe(ResultadosDeEquipo(equipo_id),
                                         SegmentosDeEquipo(equipo_id),
                                         req'[p].resultado_id)
             /\ Atiende(p, "list_resultados") =>
                    resp'[p].resultados =
                        ListaFiltrada(nadador, ResultadosDeEquipo(equipo_id), equipo_id,
                                      req'[p].filtros)
             /\ Atiende(p, "toggle") =>
                    resultado' \ ResultadosDeEquipo(equipo_id)
                        = resultado \ ResultadosDeEquipo(equipo_id) ]_vars
----------------------------------------------------------------------------
(* C18 *)

\* the stored resultado with the given id, as a set of zero or one rows
ResultadoConId(tabla_resultado, id) == {r \in tabla_resultado : r.id = id}

\* the other value of estado_validacion
EstadoOpuesto(estado) == IF estado = "valido" THEN "revisar" ELSE "valido"

\* C18: a revisar request of an entrenador for a stored resultado is answered
\* 200, reports nuevo_estado different from estado_anterior, stores the other
\* value of estado_validacion in that resultado and changes no other field
\* of it, no other resultado and no segmento.
C18_ToggleAlterna ==
    [][ \A p \in Procs :
          ( /\ Atiende(p, "toggle")
            /\ Usuarios[req'[p].usuario].rol = "entrenador"
            /\ ResultadoConId(resultado, req'[p].resultado_id) # {} ) =>
              LET antes == CHOOSE r \in ResultadoConId(resultado, req'[p].resultado_id) : TRUE
              IN /\ resp'[p].status = 200
                 /\ resp'[p].nuevo_estado # resp'[p].estado_anterior
                 /\ resultado' = (resultado \ {antes}) \cup
                        {[antes EXCEPT !.estado_validacion = EstadoOpuesto(@)]}
                 /\ segmento' = segmento ]_vars

----------------------------------------------------------------------------
(* C19 *)

\* C19: a revisar request of a user who is not an entrenador is answered 403
\* and a revisar request for an id with no resultado is answered 404; in both
\* cases no resultado changes.
C19_ToggleRechazos ==
    [][ \A p \in Procs :
          Atiende(p, "toggle") =>
              /\ Usuarios[req'[p].usuario].rol # "entrenador" =>
                     resp'[p].status = 403 /\ resultado' = resultado
              /\ ( /\ Usuarios[req'[p].usuario].rol = "entrenador"
                   /\ ResultadoConId(resultado, req'[p].resultado_id) = {} ) =>
                     resp'[p].status = 404 /\ resultado' = resultado ]_vars
----------------------------------------------------------------------------
(* C20 *)

\* the sum of tiempo_cs over a set of segmento rows
RECURSIVE SumaTiemposDeFilas(_)
SumaTiemposDeFilas(filas) ==
    IF filas = {} THEN 0
    ELSE LET s == CHOOSE s \in filas : TRUE
         IN s.tiempo_cs + SumaTiemposDeFilas(filas \ {s})

\* desviacion_cs, desviacion_absoluta_cs and requiere_revision of a summary
Desviaciones(resumen) ==
    <<resumen.desviacion_cs, resumen.desviacion_absoluta_cs, resumen.requiere_revision>>

\* the 201 response in request slot p is the one that created resultado id
EsRespuestaDeCreacion(p, id) ==
    /\ req[p].op = "create"
    /\ resp[p].status = 201
    /\ resp[p].resultado.id = id

\* C20: GET /resultados/{id} of a stored resultado is answered 200 with
\* desviacion_cs = (sum of the stored segment times) - tiempo_global_cs,
\* desviacion_absoluta_cs = |desviacion_cs| and requiere_revision true
\* exactly when |desviacion_cs| > 40; these three values are the ones of the
\* 201 response that created the resultado; and the segments listed are the
\* stored segments of the resultado in strictly ascending indice.
C20_DetalleIgualQueCreacion ==
    [][ \A p \in Procs :
          ( /\ Atiende(p, "get_resultado_detalle")
            /\ ResultadoConId(resultado, req'[p].resultado_id) # {} ) =>
              LET id == req'[p].resultado_id
                  fila == CHOOSE r \in ResultadoConId(resultado, id) : TRUE
                  filas_segmento == {s \in segmento : s.resultado_id = id}
                  desviacion == SumaTiemposDeFilas(filas_segmento) - fila.tiempo_global_cs
                  segs == resp'[p].segmentos
              IN /\ resp'[p].status = 200
                 /\ Desviaciones(resp'[p].resumen_global)
                        = <<desviacion, Abs(desviacion), Abs(desviacion) > 40>>
                 /\ EsRespuestaDeCreacion(p, id) =>
                        Desviaciones(resp'[p].resumen_global)
                            = Desviaciones(resp[p].resumen_global)
                 /\ {segs[j] : j \in 1..Len(segs)} = filas_segmento
                 /\ \A j \in 1..Len(segs) : \A k \in 1..Len(segs) :
                        j < k => segs[j].indice < segs[k].indice ]_vars

\* the detail of a stored resultado with at least two segments has been
\* returned with a deviation beyond the tolerance, marked as requiring revision
C20_Witness ==
    \E p \in Procs :
        /\ req[p].op = "get_resultado_detalle"
        /\ resp[p].status = 200
        /\ resp[p].resumen_global.requiere_revision
        /\ resp[p].resumen_global.desviacion_absoluta_cs > 40
        /\ Len(resp[p].segmentos) >= 2
----------------------------------------------------------------------------
(* C21 *)

ColumnasOrdenables ==
    {"r.tiempo_global_cs", "r.fecha_registro", "n.nombre_completo", "c.nombre",
     "r.created_at"}

\* row r satisfies every filter that the request carries
CumpleFiltros(r, f) ==
    /\ ~IsNone(f.nadador_id) => r.nadador_id = Val(f.nadador_id)
    /\ ~IsNone(f.competencia_id) => r.competencia_id = Val(f.competencia_id)
    /\ ~IsNone(f.prueba_id) => r.prueba_id = Val(f.prueba_id)
    /\ ~IsNone(f.rama) => nadador[r.nadador_id].rama = Val(f.rama)
    /\ ~IsNone(f.fecha_inicio) => ~FechaMenor(r.fecha_registro, Val(f.fecha_inicio))
    /\ ~IsNone(f.fecha_fin) => ~FechaMenor(Val(f.fecha_fin), r.fecha_registro)
    /\ ~IsNone(f.estado_validacion) => r.estado_validacion = Val(f.estado_validacion)
    /\ ~IsNone(f.fase) => r.fase = Val(f.fase)

\* the ORDER BY clause of the answered list request is a column of the
\* allow-list followed by ASC or DESC
OrdenDeLaLista(p) ==
    /\ resp'[p].order_by[1] \in ColumnasOrdenables
    /\ resp'[p].order_by[2] \in {"ASC", "DESC"}

\* C21: for every sort_by and sort_order the ORDER BY clause of list_resultados
\* is one allow-listed column and ASC or DESC, and every row returned belongs
\* to a swimmer of the caller's team and satisfies every filter the request
\* supplies.
C21_ListaOrdenYFiltros ==
    [][ \A p \in Procs :
          Atiende(p, "list_resultados") =>
              /\ OrdenDeLaLista(p)
              /\ \A r \in resp'[p].resultados :
                    /\ nadador[r.nadador_id].equipo_id = Usuarios[req'[p].usuario].equipo_id
                    /\ CumpleFiltros(r, req'[p].filtros) ]_vars
----------------------------------------------------------------------------
(* C22 *)

\* the date range inicio..fin ends before it starts or spans more than 30 days
RangoFueraDeRegla(inicio, fin) ==
    \/ FechaMenor(fin, inicio)
    \/ toordinal(fin) - toordinal(inicio) > 30

\* the range that the request in slot p asks for: the dates of a create, and
\* for an update the dates it carries completed with the stored ones
RangoPedido(p) ==
    IF req'[p].op = "crear_competencia"
    THEN <<req'[p].data.fecha_inicio, req'[p].data.fecha_fin>>
    ELSE LET fila == competencia[req'[p].competencia_id]
             d == req'[p].data
         IN << IF IsNone(d.fecha_inicio) THEN fila.fecha_inicio ELSE Val(d.fecha_inicio),
               IF IsNone(d.fecha_fin) THEN fila.fecha_fin ELSE Val(d.fecha_fin) >>

\* the step answers a crear_competencia of an entrenador, or an
\* actualizar_competencia of an entrenador for a competencia of the team that
\* carries at least one of the two dates
PideRango(p) ==
    /\ Usuarios[req'[p].usuario].rol = "entrenador"
    /\ \/ Atiende(p, "crear_competencia")
       \/ /\ Atiende(p, "actualizar_competencia")
          /\ req'[p].competencia_id \in DOMAIN competencia
          /\ competencia[req'[p].competencia_id].equipo_id
                 = Usuarios[req'[p].usuario].equipo_id
          /\ ~(IsNone(req'[p].data.fecha_inicio) /\ IsNone(req'[p].data.fecha_fin))

\* C22: a crear_competencia or actualizar_competencia request whose resulting
\* date range (for a partial update: the date it carries with the stored
\* value of the other) has fecha_fin before fecha_inicio or spans more than
\* 30 days is answered 422 and leaves table competencia unchanged, and every
\* stored competencia has fecha_inicio <= fecha_fin and at most 30 days.
C22_RangoDeFechas ==
    [][ /\ \A p \in Procs :
            (PideRango(p) /\ RangoFueraDeRegla(RangoPedido(p)[1], RangoPedido(p)[2])) =>
                /\ resp'[p].status = 422
                /\ competencia' = competencia
        /\ \A c \in DOMAIN competencia' :
            ~RangoFueraDeRegla(competencia'[c].fecha_inicio, competencia'[c].fecha_fin)
      ]_vars

----------------------------------------------------------------------------
(* C23 *)

\* what the claim asks of the header, stated without the dependency: two
\* parts, the bearer scheme, a non-empty token that verifies with a complete
\* payload, and a usuario row with the token's subject and e-mail
CredencialesValidas(h) ==
    /\ ~IsNone(h)
    /\ Len(Val(h)) = 2
    /\ Val(h)[1] \in {"Bearer", "bearer"}
    /\ ~Val(h)[2].vacio
    /\ Val(h)[2].verifica
    /\ Val(h)[2].payload_completo
    /\ \E u \in DOMAIN Usuarios :
          /\ Usuarios[u].auth_user_id = Val(h)[2].sub
          /\ Usuarios[u].email = Val(h)[2].email

\* the request that slot p starts to serve in this step carries a header
LlegaConCabecera(p) ==
    /\ pc[p] = "idle"
    /\ <<req'[p], resp'[p], pc'[p]>> # <<req[p], resp[p], pc[p]>>
    /\ "authorization" \in DOMAIN req'[p]

\* C23: a request of a protected endpoint reaches its handler only with valid
\* credentials, and then as the user of the row with the token's subject; a
\* request whose header is missing or malformed, whose token fails
\* verification, whose subject has no usuario row or whose e-mail differs
\* from the row's is answered 401 and writes nothing
C23_SoloAutenticadas ==
    [][\A p \in Procs :
         LlegaConCabecera(p) =>
            IF CredencialesValidas(req'[p].authorization)
            THEN /\ req'[p].usuario \in DOMAIN Usuarios
                 /\ Usuarios[req'[p].usuario].auth_user_id = Val(req'[p].authorization)[2].sub
                 /\ pc'[p] = "idle" => resp'[p].status # 401
            ELSE /\ resp'[p].status = 401
                 /\ pc'[p] = "idle"
                 /\ UNCHANGED <<nadador, competencia, resultado, segmento, tx,
                                seq_resultado, seq_nadador, seq_competencia>>]_vars

\* a write request whose token carries another e-mail than the usuario row
\* of its subject was answered 401 and the tables are the initial ones
C23_Witness ==
    /\ \E p \in Procs :
          /\ "authorization" \in DOMAIN req[p]
          /\ req[p].op = "crear_competencia"
          /\ resp[p] = [status |-> 401, detail |-> "email_mismatch"]
    /\ competencia = CompetenciasIniciales

----------------------------------------------------------------------------
(* C24 *)

\* the age in whole years on date f of a swimmer born on nac
EdadEn(nac, f) ==
    f[1] - nac[1] - (IF FechaMenor(<<f[1], f[2], f[3]>>, <<f[1], nac[2], nac[3]>>) THEN 1 ELSE 0)

\* C24: every stored resultado has its fecha_registro within the dates of
\* its competencia, and its categoria_label is the age band of the swimmer
\* on a date of that competencia
C24_FechaDentroDeLaCompetencia ==
    \A r \in resultado :
        (r.competencia_id \in DOMAIN competencia /\ r.nadador_id \in DOMAIN nadador) =>
            LET c == competencia[r.competencia_id]
                nac == nadador[r.nadador_id].fecha_nacimiento
            IN /\ ~FechaMenor(r.fecha_registro, c.fecha_inicio)
               /\ ~FechaMenor(c.fecha_fin, r.fecha_registro)
               /\ \E e \in EdadEn(nac, c.fecha_inicio)..EdadEn(nac, c.fecha_fin) :
                     r.categoria_label = calcular_categoria_por_edad(e)

----------------------------------------------------------------------------
(* C26 *)

\* the swimmers of the team whose categoria_actual on date hoy is c
DeCategoria(equipo_id, c, hoy) ==
    { n \in DOMAIN nadador :
        /\ nadador[n].equipo_id = equipo_id
        /\ categoria_actual(nadador[n], hoy) = c }

\* the swimmers of the team that the filter of category c selects on date hoy
SeleccionDe(equipo_id, c, hoy) == _build_nadador_query(nadador, equipo_id, Some(c), hoy)

\* C26: the list answered for categoria = c holds exactly the swimmers of the
\* team whose categoria_actual is c; on the date of the run the four filters
\* are pairwise disjoint and every swimmer of the team is selected by the
\* filter of its own categoria_actual
C26_FiltroIgualQueCategoriaActual ==
    \A p \in Procs :
        pc[p] = "listado" =>
            LET hoy == req[p].fecha_competencia
                equipo_id == Usuarios[1].equipo_id
            IN /\ {i.id : i \in resp[p].items} = DeCategoria(equipo_id, resp[p].categoria, hoy)
               /\ \A i \in resp[p].items : i.categoria_actual = resp[p].categoria
               /\ \A c, d \in CategoriasDeFiltro :
                     c # d => SeleccionDe(equipo_id, c, hoy) \cap SeleccionDe(equipo_id, d, hoy) = {}
               /\ \A n \in DOMAIN nadador :
                     nadador[n].equipo_id = equipo_id =>
                        n \in SeleccionDe(equipo_id, categoria_actual(nadador[n], hoy), hoy)

----------------------------------------------------------------------------
(* C27 *)

RECURSIVE SumaCampo(_, _, _)
\* the sum of field k over the first n segments
SumaCampo(segs, k, n) ==
    IF n = 0 THEN 0 ELSE segs[n][k] + SumaCampo(segs, k, n - 1)

\* C27: in the answer to every accepted submission the segment distances add
\* up to the distance of the prueba, every segment has 0 <= flecha_m <=
\* distancia_m, and distancia_sin_flecha_total_m + flecha_total_m =
\* distancia_total_m (the first two in tenths of a metre)
C27_DistanciaSinFlechaMasFlecha ==
    \A p \in Procs :
        (req[p].op = "create" /\ resp[p].status = 201) =>
            LET segs == resp[p].segmentos
                rg == resp[p].resumen_global
            IN /\ rg.distancia_total_m = Prueba[req[p].data.prueba_id].distancia
               /\ SumaCampo(segs, "distancia_m", Len(segs)) = rg.distancia_total_m
               /\ \A j \in 1..Len(segs) :
                     segs[j].flecha_m >= 0 /\ segs[j].flecha_m <= segs[j].distancia_m * 10
               /\ rg.distancia_sin_flecha_total_m + rg.flecha_total_m
                     = rg.distancia_total_m * 10

\* an accepted submission with a segment swum wholly in streamline: its
\* flecha_m equals its distancia_m
C27_Witness ==
    \E p \in Procs :
        /\ req[p].op = "create"
        /\ resp[p].status = 201
        /\ \E j \in 1..Len(resp[p].segmentos) :
              resp[p].segmentos[j].flecha_m = resp[p].segmentos[j].distancia_m * 10
        /\ resp[p].resumen_global.flecha_total_m > 0

----------------------------------------------------------------------------
(* C28 *)

\* the names agree whatever the case of their letters
MismoNombre(a, b) ==
    /\ Len(a) = Len(b)
    /\ \A i \in 1..Len(a) : Minuscula(a[i]) = Minuscula(b[i])

\* the closed date ranges [a1, a2] and [b1, b2] share a day
SeSolapan(a1, a2, b1, b2) == ~FechaMenor(a2, b1) /\ ~FechaMenor(b2, a1)

\* a competencia of the team has the name of data and dates that overlap
\* the dates of data
ChocaConExistente(equipo_id, data) ==
    \E c \in DOMAIN competencia :
        /\ competencia[c].equipo_id = equipo_id
        /\ MismoNombre(competencia[c].nombre, data.nombre)
        /\ SeSolapan(competencia[c].fecha_inicio, competencia[c].fecha_fin,
                     data.fecha_inicio, data.fecha_fin)

\* C28: crear_competencia never answers 201 to a create whose name (whatever
\* the case) and dates overlap those of a competencia of the caller's team:
\* it rejects it, and the table gets no second competencia of that name on
\* overlapping dates
C28_SinNombreRepetidoEnFechas ==
    [][\A p \in Procs :
         (/\ Atiende(p, "crear_competencia")
          /\ ChocaConExistente(Usuarios[req'[p].usuario].equipo_id, req'[p].data)) =>
            /\ resp'[p].status \in {403, 422}
            /\ competencia' = competencia]_vars

----------------------------------------------------------------------------
(* C29 *)

\* the stored segment of resultado id with index i
SegmentoDe(id, i) == CHOOSE s \in segmento : s.resultado_id = id /\ s.indice = i

\* the indices that the stored segments of both resultados have
IndicesComunes(id1, id2) ==
    {s.indice : s \in {t \in segmento : t.resultado_id = id1}}
        \cap {s.indice : s \in {t \in segmento : t.resultado_id = id2}}

----------------------------------------------------------------------------
(* C30 *)

\* C30: on the date of the run the estado of every row of the typeahead is
\* the estado that CompetenciaResponse gives to the same competencia, and in
\* a CompetenciaResponse es_proxima is true exactly when estado is 'proxima',
\* es_activa exactly when estado is 'en_curso', and the two are never both
\* true
C30_ClasificacionesDeAcuerdo ==
    \A p \in Procs :
        /\ pc[p] = "typeahead" =>
              \A s \in resp[p].items :
                  /\ s.estado \in {"proxima", "en_curso", "finalizada"}
                  /\ s.estado = CompetenciaResponse_estado(competencia[s.id], req[p].fecha_competencia)
        /\ (pc[p] = "competencia" /\ resp[p].status = 200) =>
              /\ resp[p].estado \in {"proxima", "en_curso", "finalizada"}
              /\ resp[p].es_proxima <=> resp[p].estado = "proxima"
              /\ resp[p].es_activa <=> resp[p].estado = "en_curso"
              /\ ~(resp[p].es_proxima /\ resp[p].es_activa)

====
